---- MODULE Spec2Model ----
(***************************************************************************)
(* A model of the Kailua type checker's core and of its boundary code:    *)
(*   - module resolution (kailua_check/src/options.rs, FsOptions),        *)
(*   - the diagnostics mailbox (kailua_vs/src/report.rs),                 *)
(*   - the type lattice (kailua_check/src/ty/value.rs).                   *)
(* Byte strings are sequences of tokens; a token is a short string that   *)
(* stands for a run of bytes holding none of the special bytes `?`, `;`.  *)
(***************************************************************************)
EXTENDS Integers, Sequences, FiniteSets, TLC

VARIABLES
    package_path,   \* FsOptions.package_path : sequence of templates
    package_cpath,  \* FsOptions.package_cpath : sequence of templates
    fs,             \* the FsSource: path -> outcome of chunk_from_path
    req,            \* the last require_chunk call: inputs, probes, result
    lang,           \* ReportInner.lang, copied into every proxy
    alive,          \* the VSReport (and with it the Receiver) still exists
    queue,          \* the mpsc channel: diagnostics sent and not yet received
    proxies,        \* the VSReportProxy values handed out
    next_id,        \* add_span calls made so far (identifies a diagnostic)
    sent,           \* history: diagnostics whose send succeeded, in order
    got,            \* history: diagnostics get_next returned with 1, in order
    last_add,       \* the last add_span call and its result
    last_get,       \* the last get_next call and its outputs
    ua, ub, uc,     \* operands handed to T::union
    ures,           \* the unions computed from them
    ctx,            \* the TypeContext
    last_assert,    \* the last assertion on ctx and its result
    asserted,       \* pairs <<a, b>> of variables with a <: b asserted Ok
    failed,         \* some assertion on ctx has returned an error
    nasserts,       \* the number of assertions made on ctx
    attr,           \* an attribute name handed to Tag::from
    tagv,           \* a Tag whose name() is taken
    tres,           \* the last Tag::from / Tag::name call and its result
    cfiles,         \* the configuration files on disk: path -> content
    config,         \* the Config being built
    last_cfg,       \* the last call on the Config: its set_config_path calls
    workspace,      \* the Workspace made from a Config
    wopt,           \* the WorkspaceOptions: its two can_update flags
    warnings,       \* the warnings WorkspaceOptions has reported, in order
    last_opt,       \* the last call on the WorkspaceOptions and its result
    last_fn         \* the last call of a free function of lib.rs and its result

reqVars == <<package_path, package_cpath, fs, req>>

repVars == <<lang, alive, queue, proxies, next_id, sent, got, last_add, last_get>>

latVars == <<ua, ub, uc, ures>>

ctxVars == <<ctx, last_assert, asserted, failed, nasserts>>

tagVars == <<attr, tagv, tres>>

wsVars == <<cfiles, config, last_cfg, workspace, wopt, warnings, last_opt, last_fn>>

vars == <<reqVars, repVars, latVars, ctxVars, tagVars, wsVars>>

(***************************************************************************)
(* Bounds.                                                                 *)
(***************************************************************************)
MaxFiles == 2       \* at most this many paths hold a chunk
MaxBroken == 1      \* at most this many paths raise an I/O error
MaxDiags == 3       \* at most this many add_span calls

(***************************************************************************)
(* Sequence helpers.                                                       *)
(***************************************************************************)
RECURSIVE Flatten(_)
Flatten(ss) ==
    IF ss = <<>> THEN <<>> ELSE Head(ss) \o Flatten(Tail(ss))

IsPrefix(s, t) ==
    /\ Len(s) <= Len(t)
    /\ \A i \in 1..Len(s) : s[i] = t[i]

(***************************************************************************)
(* kailua_check/src/options.rs                                             *)
(***************************************************************************)
Root == "root"

\* str::from_utf8: the token "\\xff" stands for a byte run that is not UTF-8.
FromUtf8Ok(bytes) == \A i \in 1..Len(bytes) : bytes[i] # "\\xff"

\* str::replace('?', name): every `?` of the template becomes the name.
ReplaceQ(template, name) ==
    Flatten([i \in 1..Len(template) |->
                IF template[i] = "?" THEN name ELSE <<template[i]>>])

\* PathBuf::join: an absolute path replaces the root.
RootJoin(path) ==
    IF path # <<>> /\ path[1] = "/" THEN path ELSE <<Root, "/">> \o path

\* the path search_file builds for one template (options.rs:42-43)
ProbePath(template, name, suffix) ==
    RootJoin(ReplaceQ(template, name) \o suffix)

\* str::split(";"): the pieces between the separators, empty pieces included.
RECURSIVE SplitSemi(_, _)
SplitSemi(s, cur) ==
    IF s = <<>> THEN <<cur>>
    ELSE IF Head(s) = ";" THEN <<cur>> \o SplitSemi(Tail(s), <<>>)
    ELSE SplitSemi(Tail(s), Append(cur, Head(s)))

NoneOutcome == [tag |-> "None", val |-> <<>>]

\* FsSource::chunk_from_path: Some(chunk), None or an error; a chunk is
\* identified by the path it was read from.
ChunkFromPath(path) ==
    IF path \in DOMAIN fs THEN fs[path] ELSE NoneOutcome

\* variant: a probe that fails counts as one that found nothing
RECURSIVE SearchFrom_skip_errors(_, _, _, _)
SearchFrom_skip_errors(name, search_paths, suffix, i) ==
    IF i > Len(search_paths) THEN [probes |-> <<>>, out |-> NoneOutcome]
    ELSE LET path == ProbePath(search_paths[i], name, suffix)
             found == ChunkFromPath(path)
         IN  IF found.tag # "Some"
             THEN LET rest == SearchFrom_skip_errors(name, search_paths, suffix, i + 1)
                  IN  [probes |-> <<path>> \o rest.probes, out |-> rest.out]
             ELSE [probes |-> <<path>>, out |-> found]

\* FsOptions::search_file: the probes made and the outcome.
RECURSIVE SearchFrom(_, _, _, _)
SearchFrom(name, search_paths, suffix, i) ==
    IF i > Len(search_paths) THEN [probes |-> <<>>, out |-> NoneOutcome]
    ELSE LET path == ProbePath(search_paths[i], name, suffix)
             found == ChunkFromPath(path)
         IN  IF found.tag = "None"
             THEN LET rest == SearchFrom(name, search_paths, suffix, i + 1)
                  IN  [probes |-> <<path>> \o rest.probes, out |-> rest.out]
             ELSE [probes |-> <<path>>, out |-> found]

search_file(name, search_paths, suffix) ==
    SearchFrom(name, search_paths, suffix, 1)

\* FsOptions::require_chunk with package_path pp and package_cpath cp:
\* the probes made, in order, and the result.
require_chunk_plain_first(bytes, pp, cp) ==
    IF ~FromUtf8Ok(bytes) THEN [probes |-> <<>>, result |-> [tag |-> "Err", val |-> <<"utf8">>]]
    ELSE
    LET r1 == search_file(bytes, pp, <<>>) IN
    IF r1.out.tag = "Some" THEN [probes |-> r1.probes, result |-> [tag |-> "Ok", val |-> r1.out.val]]
    ELSE IF r1.out.tag = "Err" THEN [probes |-> r1.probes, result |-> r1.out]
    ELSE
    LET r2 == search_file(bytes, pp, <<".kailua">>) IN
    IF r2.out.tag = "Some" THEN [probes |-> r1.probes \o r2.probes, result |-> [tag |-> "Ok", val |-> r2.out.val]]
    ELSE IF r2.out.tag = "Err" THEN [probes |-> r1.probes \o r2.probes, result |-> r2.out]
    ELSE
    LET r3 == search_file(bytes, cp, <<".kailua">>) IN
    IF r3.out.tag = "Some" THEN [probes |-> r1.probes \o r2.probes \o r3.probes, result |-> [tag |-> "Ok", val |-> r3.out.val]]
    ELSE IF r3.out.tag = "Err" THEN [probes |-> r1.probes \o r2.probes \o r3.probes, result |-> r3.out]
    ELSE [probes |-> r1.probes \o r2.probes \o r3.probes,
          result |-> [tag |-> "Err", val |-> <<"module not found">>]]

require_chunk(bytes, pp, cp) ==
    IF ~FromUtf8Ok(bytes) THEN [probes |-> <<>>, result |-> [tag |-> "Err", val |-> <<"utf8">>]]
    ELSE
    LET r1 == search_file(bytes, pp, <<".kailua">>) IN
    IF r1.out.tag = "Some" THEN [probes |-> r1.probes, result |-> [tag |-> "Ok", val |-> r1.out.val]]
    ELSE IF r1.out.tag = "Err" THEN [probes |-> r1.probes, result |-> r1.out]
    ELSE
    LET r2 == search_file(bytes, pp, <<>>) IN
    IF r2.out.tag = "Some" THEN [probes |-> r1.probes \o r2.probes, result |-> [tag |-> "Ok", val |-> r2.out.val]]
    ELSE IF r2.out.tag = "Err" THEN [probes |-> r1.probes \o r2.probes, result |-> r2.out]
    ELSE
    LET r3 == search_file(bytes, cp, <<".kailua">>) IN
    IF r3.out.tag = "Some" THEN [probes |-> r1.probes \o r2.probes \o r3.probes, result |-> [tag |-> "Ok", val |-> r3.out.val]]
    ELSE IF r3.out.tag = "Err" THEN [probes |-> r1.probes \o r2.probes \o r3.probes, result |-> r3.out]
    ELSE [probes |-> r1.probes \o r2.probes \o r3.probes,
          result |-> [tag |-> "Err", val |-> <<"module not found">>]]

(***************************************************************************)
(* Inputs of the module-resolution model.                                  *)
(***************************************************************************)
ModuleNames == { <<"m">>, <<"\\xff">> }

\* values handed to set_package_path / set_package_cpath
PathStrings ==
    { <<"?", ".lua">>,
      <<"lib/", "?", ".lua">>,
      <<"?", ".lua", ";", "lib/", "?", ".lua">>,
      <<"\\xff">> }

CPathStrings ==
    { <<"?", ".so">>,
      <<"\\xff">> }

PathTemplates == { <<"?", ".lua">>, <<"lib/", "?", ".lua">> }
CPathTemplates == { <<"?", ".so">> }

\* every path a probe can name, and the native libraries themselves
CandidatePaths ==
    { ProbePath(t, n, s) : t \in PathTemplates \cup CPathTemplates,
                           n \in { <<"m">> },
                           s \in { <<>>, <<".kailua">> } }

FsStates ==
    { [p \in present \cup broken |->
          IF p \in present THEN [tag |-> "Some", val |-> p]
                           ELSE [tag |-> "Err", val |-> <<"io">> \o p]] :
      present \in { s \in SUBSET CandidatePaths : Cardinality(s) <= MaxFiles },
      broken \in { s \in SUBSET CandidatePaths : Cardinality(s) <= MaxBroken } }

IdleReq ==
    [name |-> <<>>, pp |-> <<>>, cp |-> <<>>, probes |-> <<>>,
     result |-> [tag |-> "Idle", val |-> <<>>]]

\* FsOptions::new (options.rs:28-37) over any source
InitReq ==
    /\ package_path = << <<"?", ".lua">> >>
    /\ package_cpath = <<>>
    /\ fs \in FsStates
    /\ req = IdleReq

\* Options::set_package_path (options.rs:55-59)
SetPackagePath(bytes) ==
    /\ FromUtf8Ok(bytes)
    /\ package_path' = SplitSemi(bytes, <<>>)
    /\ UNCHANGED <<package_cpath, fs, req, repVars, latVars, ctxVars, tagVars, wsVars>>

\* Options::set_package_cpath (options.rs:61-65)
SetPackageCpath(bytes) ==
    /\ FromUtf8Ok(bytes)
    /\ package_cpath' = SplitSemi(bytes, <<>>)
    /\ UNCHANGED <<package_path, fs, req, repVars, latVars, ctxVars, tagVars, wsVars>>

\* set_package_path / set_package_cpath with bytes that are not UTF-8:
\* the error is returned and nothing is assigned
SetPathBadUtf8(bytes) ==
    /\ ~FromUtf8Ok(bytes)
    /\ UNCHANGED vars

\* Options::require_chunk (options.rs:67-82)
RequireChunk(bytes) ==
    /\ LET r == require_chunk(bytes, package_path, package_cpath)
       IN  req' = [name |-> bytes, pp |-> package_path, cp |-> package_cpath,
                   probes |-> r.probes, result |-> r.result]
    /\ UNCHANGED <<package_path, package_cpath, fs, repVars, latVars, ctxVars, tagVars, wsVars>>

NextReq ==
    \/ \E b \in PathStrings : SetPackagePath(b)
    \/ \E b \in CPathStrings : SetPackageCpath(b)
    \/ \E b \in PathStrings \cup CPathStrings : SetPathBadUtf8(b)
    \/ \E n \in ModuleNames : RequireChunk(n)

(***************************************************************************)
(* kailua_vs/src/report.rs                                                 *)
(***************************************************************************)

\* VSReportKind::from (report.rs:28-36) with the enum's discriminants
VSReportKindFrom(kind) ==
    CASE kind = "Note" -> 0
      [] kind = "Info" -> 1
      [] kind = "Warning" -> 2
      [] kind = "Error" -> 3
      [] kind = "Fatal" -> 4

SpanDummy == "dummy"

\* Localized::new(msg, lang).to_string(): the text of the message in the
\* proxy's language, the English text when it has no translation
Localized(msg, l) == IF l \in DOMAIN msg THEN msg[l] ELSE msg["en"]

\* the UTF-16 code units of one character
Utf16Units(ch) ==
    CASE ch = "e" -> <<101>>
      [] ch = "k" -> <<107>>
      [] ch = "NUL" -> <<0>>
      [] ch = "U+1F600" -> <<55357, 56832>>

\* WideCString::from_str: the UTF-16 units of the text; an interior NUL
\* is an error
WideFromStr(text) ==
    IF \E i \in 1..Len(text) : text[i] = "NUL"
    THEN [ok |-> FALSE, w |-> <<>>]
    ELSE [ok |-> TRUE, w |-> Flatten([i \in 1..Len(text) |-> Utf16Units(text[i])])]

\* VSReportProxy::add_span on a proxy with language l: the result and the
\* channel afterwards.  Sender::send fails once the receiver is gone.
add_span_fatal_first(id, proxy, l, kind, span, msg, rcv, q) ==
    LET diag == [id |-> id, proxy |-> proxy, kind |-> kind, span |-> span,
                 msg |-> Localized(msg, l)]
    IN  IF kind = "Fatal" THEN [ret |-> "Stop", q |-> q, diag |-> diag]
        ELSE IF ~rcv THEN [ret |-> "Stop", q |-> q, diag |-> diag]
        ELSE [ret |-> "Ok", q |-> Append(q, diag), diag |-> diag]

add_span(id, proxy, l, kind, span, msg, rcv, q) ==
    LET diag == [id |-> id, proxy |-> proxy, kind |-> kind, span |-> span,
                 msg |-> Localized(msg, l)]
    IN  IF ~rcv THEN [ret |-> "Stop", q |-> q, diag |-> diag]
        ELSE IF kind = "Fatal" THEN [ret |-> "Stop", q |-> Append(q, diag), diag |-> diag]
        ELSE [ret |-> "Ok", q |-> Append(q, diag), diag |-> diag]

EmptyGet == [ret |-> 0, kind |-> VSReportKindFrom("Note"), span |-> SpanDummy, msg |-> <<>>]

\* VSReport::get_next: the outputs and the channel afterwards
get_next(q) ==
    IF q # <<>> /\ WideFromStr(Head(q).msg).ok
    THEN [out |-> [ret |-> 1, kind |-> VSReportKindFrom(Head(q).kind),
                   span |-> Head(q).span, msg |-> WideFromStr(Head(q).msg).w],
          q |-> Tail(q)]
    ELSE [out |-> EmptyGet, q |-> IF q # <<>> THEN Tail(q) ELSE q]

(***************************************************************************)
(* Inputs of the report model.                                             *)
(***************************************************************************)
Langs == { "en", "ko" }

AddKinds == { "Note", "Fatal" }

AddSpans == { "s1" }

\* Localize values: a text per language
Messages ==
    { [en |-> <<"e">>, ko |-> <<"k", "U+1F600">>],
      [en |-> <<"e", "NUL", "e">>] }

NoAdd == [id |-> 0, proxy |-> "none", kind |-> "Note", ret |-> "Ok", rcv |-> TRUE]

NoGet == [pending |-> 0, out |-> EmptyGet]

ProxyIds == { "p1", "p2" }

\* VSReport::new (report.rs:58-67)
InitReport ==
    /\ lang \in Langs
    /\ alive = TRUE
    /\ queue = <<>>
    /\ proxies = {}
    /\ next_id = 0
    /\ sent = <<>>
    /\ got = <<>>
    /\ last_add = NoAdd
    /\ last_get = NoGet

\* VSReport::proxy (report.rs:70-76)
Proxy(p) ==
    /\ alive
    /\ p \notin proxies
    /\ proxies' = proxies \cup {p}
    /\ UNCHANGED <<lang, alive, queue, next_id, sent, got, last_add, last_get, reqVars, latVars, ctxVars, tagVars, wsVars>>

\* VSReportProxy::add_span (report.rs:103-113)
AddSpan(p, kind, span, msg) ==
    /\ next_id < MaxDiags
    /\ LET r == add_span(next_id + 1, p, lang, kind, span, msg, alive, queue)
       IN  /\ queue' = r.q
           /\ sent' = IF alive THEN Append(sent, r.diag) ELSE sent
           /\ last_add' = [id |-> next_id + 1, proxy |-> p, kind |-> kind,
                           ret |-> r.ret, rcv |-> alive]
    /\ next_id' = next_id + 1
    /\ UNCHANGED <<lang, alive, proxies, got, last_get, reqVars, latVars, ctxVars, tagVars, wsVars>>

\* VSReport::get_next (report.rs:78-94)
GetNext ==
    /\ alive
    /\ LET r == get_next(queue)
       IN  /\ queue' = r.q
           /\ got' = IF r.out.ret = 1 THEN Append(got, Head(queue)) ELSE got
           /\ last_get' = [pending |-> Len(queue), out |-> r.out]
    /\ UNCHANGED <<lang, alive, proxies, next_id, sent, last_add, reqVars, latVars, ctxVars, tagVars, wsVars>>

\* kailua_report_free (report.rs:155-163): the receiver goes with the report
Free ==
    /\ alive
    /\ alive' = FALSE
    /\ queue' = <<>>
    /\ UNCHANGED <<lang, proxies, next_id, sent, got, last_add, last_get, reqVars, latVars, ctxVars, tagVars, wsVars>>

NextReport ==
    \/ \E p \in ProxyIds : Proxy(p)
    \/ \E p \in proxies, k \in AddKinds, sp \in AddSpans, m \in Messages :
           AddSpan(p, k, sp, m)
    \/ GetNext
    \/ Free

(***************************************************************************)
(* kailua_check/src/ty/value.rs: type terms.                               *)
(* A type is a record with a kind field k.  The shape types (Numbers,     *)
(* Strings, Tables, Functions), Slot, Union and the TypeContext are not   *)
(* part of value.rs; they follow the specification and the expectations   *)
(* of value.rs's tests.                                                    *)
(***************************************************************************)
TDynamic == [k |-> "Dynamic"]
TNone == [k |-> "None"]
TNil == [k |-> "Nil"]
TBoolean == [k |-> "Boolean"]
TTrue == [k |-> "True"]
TFalse == [k |-> "False"]

NAll == [c |-> "All"]
NInt == [c |-> "Int"]
NOne(v) == [c |-> "One", v |-> v]
NSome(vs) == [c |-> "Some", vs |-> vs]

SAll == [c |-> "All"]
SOne(v) == [c |-> "One", v |-> v]
SSome(vs) == [c |-> "Some", vs |-> vs]

TabAll == [c |-> "All"]
TabEmpty == [c |-> "Empty"]
TabTuple(slots) == [c |-> "Tuple", slots |-> slots]
TabRecord(fields) == [c |-> "Record", fields |-> fields]
TabArray(slot) == [c |-> "Array", slot |-> slot]
TabMap(key, slot) == [c |-> "Map", key |-> key, slot |-> slot]

FAll == [c |-> "All"]
FSimple(f) == [c |-> "Simple", f |-> f]

TNumbers(n) == [k |-> "Numbers", n |-> n]
TStrings(st) == [k |-> "Strings", st |-> st]
TTables(tab) == [k |-> "Tables", tab |-> tab]
TFunctions(fn) == [k |-> "Functions", fn |-> fn]
TTVar(v) == [k |-> "TVar", v |-> v]
TBuiltin(b, t) == [k |-> "Builtin", b |-> b, t |-> t]
TUnionOf(u) == [k |-> "Union", u |-> u]

\* the constructors of value.rs:31-61
number == TNumbers(NAll)
integer == TNumbers(NInt)
int(v) == TNumbers(NOne(v))
string == TStrings(SAll)
str(v) == TStrings(SOne(v))
table == TTables(TabAll)
empty_table == TTables(TabEmpty)
function == TFunctions(FAll)
func(f) == TFunctions(FSimple(f))
tuple(slots) == TTables(TabTuple(slots))
record(fields) == TTables(TabRecord(fields))
array(slot) == TTables(TabArray(slot))
map(key, slot) == TTables(TabMap(key, slot))

\* slots: a flavor and a type (the Mark of VarOrConst / VarOrCurrently is
\* compared as Mark::any() and is not part of the term)
Slot(f, t) == [f |-> f, t |-> t]
just(t) == Slot("Just", t)
var(t) == Slot("Var", t)
cnst(t) == Slot("Const", t)
curr(t) == Slot("Currently", t)

Absent == [c |-> "Absent"]

\* Union: one optional member per family and the presence bits
EmptyUnion ==
    [has_nil |-> FALSE, has_true |-> FALSE, has_false |-> FALSE,
     numbers |-> Absent, strings |-> Absent, tables |-> Absent,
     functions |-> Absent, tvar |-> Absent]

(***************************************************************************)
(* Shape unions.                                                           *)
(***************************************************************************)
LitVals(x) == IF x.c = "One" THEN {x.v} ELSE x.vs

\* Numbers::union: All absorbs, then Int; literal sets are united
NumbersUnion(a, b) ==
    IF a.c = "All" \/ b.c = "All" THEN NAll
    ELSE IF a.c = "Int" \/ b.c = "Int" THEN NInt
    ELSE LET vs == LitVals(a) \cup LitVals(b)
         IN  IF Cardinality(vs) = 1 THEN NOne(CHOOSE v \in vs : TRUE) ELSE NSome(vs)

\* Strings::union
StringsUnion(a, b) ==
    IF a.c = "All" \/ b.c = "All" THEN SAll
    ELSE LET vs == LitVals(a) \cup LitVals(b)
         IN  IF Cardinality(vs) = 1 THEN SOne(CHOOSE v \in vs : TRUE) ELSE SSome(vs)

\* Functions::union: All absorbs; two signatures unite only when they unify
FunctionsUnion(a, b) ==
    IF a.c = "All" \/ b.c = "All" THEN FAll
    ELSE IF a.f = b.f THEN a ELSE FAll

\* the join of two slot flavors, neither of them Currently
FlavorUnion(f, g) ==
    CASE f = "Just" /\ g = "Just" -> "Just"
      [] f = "Const" /\ g \in { "Just", "Var", "Const" } -> "Const"
      [] g = "Const" /\ f \in { "Just", "Var" } -> "Const"
      [] f \in { "Just", "Var" } /\ g \in { "Just", "Var" } -> "VarOrConst"
      [] f = "VarOrConst" /\ g \in { "Just", "Var", "Const" } -> "VarOrConst"
      [] g = "VarOrConst" /\ f \in { "Just", "Var", "Const" } -> "VarOrConst"
      [] f = "VarOrCurrently" /\ g \in { "Just", "Var" } -> "VarOrCurrently"
      [] g = "VarOrCurrently" /\ f \in { "Just", "Var" } -> "VarOrCurrently"
      [] f = "VarOrCurrently" /\ g = "Const" -> "VarOrConst"
      [] g = "VarOrCurrently" /\ f = "Const" -> "VarOrConst"

\* a union turns a Currently slot that takes part in it into a Var slot
Adapted(s) == IF s.f = "Currently" THEN Slot("Var", s.t) ELSE s

RECURSIVE TUnion(_, _)
RECURSIVE SlotUnion(_, _)
RECURSIVE TablesUnion(_, _)
RECURSIVE UnionUnion(_, _)

\* S::union / Slot::union: flavors joined after the Currently conversion,
\* the slot carries the united type
SlotUnion(s1, s2) ==
    LET a == Adapted(s1)
        b == Adapted(s2)
    IN  Slot(FlavorUnion(a.f, b.f), TUnion(a.t, b.t))

\* variant: a missing slot counts as a Var slot of nil
JustNil_var == Slot("Var", TNil)

\* the slot a missing tuple position or record key counts as
JustNil == Slot("Just", TNil)

Max(a, b) == IF a >= b THEN a ELSE b

\* Tables::union
TablesUnion(a, b) ==
    IF a.c = "All" \/ b.c = "All" THEN TabAll
    ELSE IF a.c = "Empty" /\ b.c = "Empty" THEN TabEmpty
    ELSE IF a.c = "Empty" /\ b.c = "Tuple"
        THEN TabTuple([i \in 1..Len(b.slots) |-> SlotUnion(JustNil, b.slots[i])])
    ELSE IF a.c = "Tuple" /\ b.c = "Empty"
        THEN TabTuple([i \in 1..Len(a.slots) |-> SlotUnion(a.slots[i], JustNil)])
    ELSE IF a.c = "Empty" THEN b
    ELSE IF b.c = "Empty" THEN a
    ELSE IF a.c = "Tuple" /\ b.c = "Tuple"
        THEN TabTuple([i \in 1..Max(Len(a.slots), Len(b.slots)) |->
                 SlotUnion(IF i <= Len(a.slots) THEN a.slots[i] ELSE JustNil,
                           IF i <= Len(b.slots) THEN b.slots[i] ELSE JustNil)])
    ELSE IF a.c = "Record" /\ b.c = "Record"
        THEN TabRecord([key \in DOMAIN a.fields \cup DOMAIN b.fields |->
                 SlotUnion(IF key \in DOMAIN a.fields THEN a.fields[key] ELSE JustNil,
                           IF key \in DOMAIN b.fields THEN b.fields[key] ELSE JustNil)])
    ELSE IF a.c = "Array" /\ b.c = "Array"
        THEN TabArray(SlotUnion(a.slot, b.slot))
    ELSE IF a.c = "Map" /\ b.c = "Map"
        THEN TabMap(TUnion(a.key, b.key), SlotUnion(a.slot, b.slot))
    ELSE IF a.c = "Array" /\ b.c = "Map"
        THEN TabMap(TUnion(integer, b.key), SlotUnion(a.slot, b.slot))
    ELSE IF a.c = "Map" /\ b.c = "Array"
        THEN TabMap(TUnion(a.key, integer), SlotUnion(a.slot, b.slot))
    ELSE TabAll

\* TVar::union: a variable joined with itself is itself; for two distinct
\* variables the context issues a new variable above both, written 0 here
TVarUnion(a, b) == IF a = b THEN a ELSE 0

RECURSIVE UnionFrom(_)
\* Union::from(&T)
UnionFrom(t) ==
    CASE t.k = "None" -> EmptyUnion
      [] t.k = "Nil" -> [EmptyUnion EXCEPT !.has_nil = TRUE]
      [] t.k = "Boolean" -> [EmptyUnion EXCEPT !.has_true = TRUE, !.has_false = TRUE]
      [] t.k = "True" -> [EmptyUnion EXCEPT !.has_true = TRUE]
      [] t.k = "False" -> [EmptyUnion EXCEPT !.has_false = TRUE]
      [] t.k = "Numbers" -> [EmptyUnion EXCEPT !.numbers = t.n]
      [] t.k = "Strings" -> [EmptyUnion EXCEPT !.strings = t.st]
      [] t.k = "Tables" -> [EmptyUnion EXCEPT !.tables = t.tab]
      [] t.k = "Functions" -> [EmptyUnion EXCEPT !.functions = t.fn]
      [] t.k = "TVar" -> [EmptyUnion EXCEPT !.tvar = [c |-> "TVar", v |-> t.v]]
      [] t.k = "Builtin" -> UnionFrom(t.t)
      [] t.k = "Union" -> t.u

\* Union::union: a per-field merge
UnionUnion(a, b) ==
    [has_nil |-> a.has_nil \/ b.has_nil,
     has_true |-> a.has_true \/ b.has_true,
     has_false |-> a.has_false \/ b.has_false,
     numbers |-> IF a.numbers = Absent THEN b.numbers
                 ELSE IF b.numbers = Absent THEN a.numbers
                 ELSE NumbersUnion(a.numbers, b.numbers),
     strings |-> IF a.strings = Absent THEN b.strings
                 ELSE IF b.strings = Absent THEN a.strings
                 ELSE StringsUnion(a.strings, b.strings),
     tables |-> IF a.tables = Absent THEN b.tables
                ELSE IF b.tables = Absent THEN a.tables
                ELSE TablesUnion(a.tables, b.tables),
     functions |-> IF a.functions = Absent THEN b.functions
                   ELSE IF b.functions = Absent THEN a.functions
                   ELSE FunctionsUnion(a.functions, b.functions),
     tvar |-> IF a.tvar = Absent THEN b.tvar
              ELSE IF b.tvar = Absent THEN a.tvar
              ELSE [c |-> "TVar", v |-> TVarUnion(a.tvar.v, b.tvar.v)]]

\* the number of members of a union, true and false counted apart
UnionSize(u) ==
    (IF u.has_nil THEN 1 ELSE 0) + (IF u.has_true THEN 1 ELSE 0)
    + (IF u.has_false THEN 1 ELSE 0) + (IF u.numbers # Absent THEN 1 ELSE 0)
    + (IF u.strings # Absent THEN 1 ELSE 0) + (IF u.tables # Absent THEN 1 ELSE 0)
    + (IF u.functions # Absent THEN 1 ELSE 0) + (IF u.tvar # Absent THEN 1 ELSE 0)

\* Union::simplify: the single member when there is one, Boolean for
\* true|false, the bare union otherwise
Simplify(u) ==
    IF UnionSize(u) = 0 THEN TNone
    ELSE IF UnionSize(u) = 1 THEN
        IF u.has_nil THEN TNil
        ELSE IF u.has_true THEN TTrue
        ELSE IF u.has_false THEN TFalse
        ELSE IF u.numbers # Absent THEN TNumbers(u.numbers)
        ELSE IF u.strings # Absent THEN TStrings(u.strings)
        ELSE IF u.tables # Absent THEN TTables(u.tables)
        ELSE IF u.functions # Absent THEN TFunctions(u.functions)
        ELSE TTVar(u.tvar.v)
    ELSE IF UnionSize(u) = 2 /\ u.has_true /\ u.has_false THEN TBoolean
    ELSE TUnionOf(u)

IsBool(t) == t.k \in { "Boolean", "True", "False" }

\* variant: two boolean types always widen to Boolean
BooleanUnion_widen(a, b) == TBoolean

\* variant: the left operand wins
BooleanUnion_lhs(a, b) == a

\* variant: True absorbs False
BooleanUnion_true(a, b) ==
    IF a.k = "True" /\ b.k = "False" THEN TTrue
    ELSE IF a.k = b.k THEN a
    ELSE TBoolean

\* the nine boolean arms of T::union (value.rs:302-310)
BooleanUnion(a, b) ==
    IF a.k = "Boolean" /\ b.k = "Boolean" THEN TBoolean
    ELSE IF a.k = "Boolean" /\ b.k = "True" THEN TBoolean
    ELSE IF a.k = "Boolean" /\ b.k = "False" THEN TBoolean
    ELSE IF a.k = "True" /\ b.k = "Boolean" THEN TBoolean
    ELSE IF a.k = "False" /\ b.k = "Boolean" THEN TBoolean
    ELSE IF a.k = "True" /\ b.k = "True" THEN TTrue
    ELSE IF a.k = "True" /\ b.k = "False" THEN TBoolean
    ELSE IF a.k = "False" /\ b.k = "True" THEN TBoolean
    ELSE TFalse

\* variants of the Tables arm: the table that is not empty kept, tables of
\* different shapes never merged
TablesArm_rhs(a, b) == TTables(IF a.c = "Empty" THEN b ELSE IF b.c = "Empty" THEN a ELSE b)

TablesArm_same_shape(a, b) ==
    TTables(IF a.c = b.c \/ a.c = "Empty" \/ b.c = "Empty" THEN TablesUnion(a, b)
            ELSE TabAll)

\* the Tables arm of T::union (value.rs:327-333)
TablesArm(a, b) == TTables(TablesUnion(a, b))

NoneUnion_none(ty) == TNone

\* the two None arms of T::union (value.rs:298-299): the other operand, cloned
NoneUnion(ty) == ty

\* T::union (value.rs:287-350), the arms in the order of the match
TUnion(a, b) ==
    IF a.k = "Builtin" /\ b.k = "Builtin" /\ a.b = b.b
        THEN TBuiltin(a.b, TUnion(a.t, b.t))
    ELSE IF a.k = "Builtin" /\ b.k = "Builtin" THEN TUnion(a.t, b.t)
    ELSE IF a.k = "Builtin" THEN TUnion(a.t, b)
    ELSE IF b.k = "Builtin" THEN TUnion(a, b.t)
    ELSE IF a.k = "Dynamic" THEN TDynamic
    ELSE IF b.k = "Dynamic" THEN TDynamic
    ELSE IF a.k = "None" THEN NoneUnion(b)
    ELSE IF b.k = "None" THEN NoneUnion(a)
    ELSE IF a.k = "Nil" /\ b.k = "Nil" THEN TNil
    ELSE IF IsBool(a) /\ IsBool(b) THEN BooleanUnion(a, b)
    ELSE IF a.k = "Numbers" /\ b.k = "Numbers" THEN TNumbers(NumbersUnion(a.n, b.n))
    ELSE IF a.k = "Strings" /\ b.k = "Strings" THEN TStrings(StringsUnion(a.st, b.st))
    ELSE IF a.k = "Tables" /\ b.k = "Tables" THEN TablesArm(a.tab, b.tab)
    ELSE IF a.k = "Functions" /\ b.k = "Functions"
        THEN TFunctions(FunctionsUnion(a.fn, b.fn))
    ELSE IF a.k = "TVar" /\ b.k = "TVar" THEN TTVar(TVarUnion(a.v, b.v))
    ELSE Simplify(UnionUnion(UnionFrom(a), UnionFrom(b)))

\* variant: only the slots that the other operand has a slot for are adapted
TablesAfter_shared(a, b) ==
    IF a.c = "Tuple" /\ b.c = "Tuple"
        THEN TabTuple([i \in 1..Len(a.slots) |->
                          IF i <= Len(b.slots) THEN Adapted(a.slots[i]) ELSE a.slots[i]])
    ELSE IF a.c = "Record" /\ b.c = "Record"
        THEN TabRecord([key \in DOMAIN a.fields |->
                           IF key \in DOMAIN b.fields THEN Adapted(a.fields[key])
                           ELSE a.fields[key]])
    ELSE IF a.c = "Array" /\ b.c \in { "Array", "Map" } THEN TabArray(Adapted(a.slot))
    ELSE IF a.c = "Map" /\ b.c \in { "Array", "Map" } THEN TabMap(a.key, Adapted(a.slot))
    ELSE a

\* the operands of a table union after it: every Currently slot that was
\* joined has become a Var slot (value.rs:615-638)
TablesAfter(a, b) ==
    IF a.c = "Tuple" /\ b.c \in { "Tuple", "Empty" }
        THEN TabTuple([i \in 1..Len(a.slots) |-> Adapted(a.slots[i])])
    ELSE IF a.c = "Record" /\ b.c = "Record"
        THEN TabRecord([key \in DOMAIN a.fields |-> Adapted(a.fields[key])])
    ELSE IF a.c = "Array" /\ b.c \in { "Array", "Map" } THEN TabArray(Adapted(a.slot))
    ELSE IF a.c = "Map" /\ b.c \in { "Array", "Map" } THEN TabMap(a.key, Adapted(a.slot))
    ELSE a

RECURSIVE OperandAfter(_, _)
\* the operand a after T::union(a, b)
OperandAfter(a, b) ==
    IF a.k = "Builtin" THEN TBuiltin(a.b, OperandAfter(a.t, b))
    ELSE IF b.k = "Builtin" THEN OperandAfter(a, b.t)
    ELSE IF b.k \in { "Dynamic", "None" } THEN a
    ELSE IF a.k = "Tables" /\ b.k = "Tables" THEN TTables(TablesAfter(a.tab, b.tab))
    ELSE IF a.k = "Tables" /\ b.k = "Union" /\ b.u.tables # Absent
        THEN TTables(TablesAfter(a.tab, b.u.tables))
    ELSE IF a.k = "Union" /\ a.u.tables # Absent /\ b.k = "Tables"
        THEN TUnionOf([a.u EXCEPT !.tables = TablesAfter(a.u.tables, b.tab)])
    ELSE IF a.k = "Union" /\ a.u.tables # Absent /\ b.k = "Union" /\ b.u.tables # Absent
        THEN TUnionOf([a.u EXCEPT !.tables = TablesAfter(a.u.tables, b.u.tables)])
    ELSE a

(***************************************************************************)
(* The TypeContext: type variables with a lower and an upper bound, the    *)
(* variable-to-variable edges, and the slot flavor marks.                  *)
(***************************************************************************)
EmptyContext ==
    [ntv |-> 0, lower |-> <<>>, upper |-> <<>>, edges |-> {},
     nmark |-> 0, marks |-> <<>>]

\* the outcome of an assertion and the context it leaves behind
Ok(c) == [r |-> "Ok", ctx |-> c]
Err(c) == [r |-> "Err", ctx |-> c]
Panic(c) == [r |-> "Panic", ctx |-> c]
MarkErr(c) == [r |-> "CannotResolveMark", ctx |-> c]

\* Numbers, Strings, Functions: a <: b on the shapes
NumbersSub(a, b) ==
    IF b.c = "All" THEN TRUE
    ELSE IF a.c = "All" THEN FALSE
    ELSE IF b.c = "Int" THEN TRUE
    ELSE IF a.c = "Int" THEN FALSE
    ELSE LitVals(a) \subseteq LitVals(b)

StringsSub(a, b) ==
    IF b.c = "All" THEN TRUE
    ELSE IF a.c = "All" THEN FALSE
    ELSE LitVals(a) \subseteq LitVals(b)

FunctionsSub(a, b) == b.c = "All" \/ a = b

\* the members of a Union in the order Union::visit hands them out
UnionMembers(u) ==
    (IF u.has_nil THEN <<TNil>> ELSE <<>>)
    \o (IF u.has_true /\ u.has_false THEN <<TBoolean>>
        ELSE IF u.has_true THEN <<TTrue>>
        ELSE IF u.has_false THEN <<TFalse>>
        ELSE <<>>)
    \o (IF u.numbers # Absent THEN <<TNumbers(u.numbers)>> ELSE <<>>)
    \o (IF u.strings # Absent THEN <<TStrings(u.strings)>> ELSE <<>>)
    \o (IF u.tables # Absent THEN <<TTables(u.tables)>> ELSE <<>>)
    \o (IF u.functions # Absent THEN <<TFunctions(u.functions)>> ELSE <<>>)
    \o (IF u.tvar # Absent THEN <<TTVar(u.tvar.v)>> ELSE <<>>)

RECURSIVE GroundSub(_, _)
\* a <: b for two bounds: types without type variables
GroundSub(a, b) ==
    IF a.k = "Dynamic" \/ b.k = "Dynamic" THEN TRUE
    ELSE IF a.k = "None" THEN TRUE
    ELSE IF b.k = "None" THEN FALSE
    ELSE IF a.k = "Union"
        THEN \A i \in 1..Len(UnionMembers(a.u)) : GroundSub(UnionMembers(a.u)[i], b)
    ELSE IF b.k = "Union"
        THEN \E i \in 1..Len(UnionMembers(b.u)) : GroundSub(a, UnionMembers(b.u)[i])
    ELSE IF a.k = "Numbers" /\ b.k = "Numbers" THEN NumbersSub(a.n, b.n)
    ELSE IF a.k = "Strings" /\ b.k = "Strings" THEN StringsSub(a.st, b.st)
    ELSE IF a.k = "Functions" /\ b.k = "Functions" THEN FunctionsSub(a.fn, b.fn)
    ELSE IF IsBool(a) /\ IsBool(b) THEN b.k = "Boolean" \/ a.k = b.k
    ELSE IF a.k = "Tables" /\ b.k = "Tables" THEN b.tab.c = "All" \/ a = b
    ELSE a = b

RECURSIVE TAssertSub(_, _, _), TAssertEq(_, _, _)

\* the intersection of two bounds
TMeet(a, b) ==
    IF a.k = "Dynamic" THEN b
    ELSE IF b.k = "Dynamic" THEN a
    ELSE IF GroundSub(a, b) THEN a
    ELSE IF GroundSub(b, a) THEN b
    ELSE TNone

gen_tvar(c) ==
    [c EXCEPT !.ntv = @ + 1, !.lower = Append(@, TNone), !.upper = Append(@, TDynamic)]

\* an edge a -> b whose bounds have not reached its other end yet
Unsettled(c) ==
    { e \in c.edges : \/ c.upper[e[1]] # TMeet(c.upper[e[1]], c.upper[e[2]])
                      \/ c.lower[e[2]] # TUnion(c.lower[e[2]], c.lower[e[1]]) }

\* the bounds of one edge a -> b brought to its other end
Settle(c, e) ==
    [c EXCEPT !.upper[e[1]] = TMeet(@, c.upper[e[2]]),
              !.lower[e[2]] = TUnion(@, c.lower[e[1]])]

RECURSIVE Propagate(_), PropagateFrom(_, _)
\* saturating propagation: upper bounds flow against the edges, lower
\* bounds along them, until nothing changes
Propagate(c) == PropagateFrom(c, Unsettled(c))

PropagateFrom(c, open) ==
    IF open = {} THEN c ELSE Propagate(Settle(c, CHOOSE e \in open : TRUE))

\* the variables whose bounds differ between two contexts
Refined(c, d) == { v \in 1..c.ntv : c.lower[v] # d.lower[v] \/ c.upper[v] # d.upper[v] }

\* lower <: upper, and the upper bound has not shrunk to None
BoundsOk(c, v) == c.upper[v] # TNone /\ GroundSub(c.lower[v], c.upper[v])

\* the refinement d of c is kept whether or not the check passes
Checked(c, d, vs) ==
    IF \A v \in vs \cup Refined(c, d) : BoundsOk(d, v) THEN Ok(d) ELSE Err(d)

assert_tvar_sub(v, t, c) ==
    Checked(c, Propagate([c EXCEPT !.upper[v] = TMeet(@, t)]), {v})

assert_tvar_sup(v, t, c) ==
    Checked(c, Propagate([c EXCEPT !.lower[v] = TUnion(@, t)]), {v})

\* try!: the first error ends the assertion
ThenTvarSup(first, v, t) == IF first.r # "Ok" THEN first ELSE assert_tvar_sup(v, t, first.ctx)

assert_tvar_eq(v, t, c) == ThenTvarSup(assert_tvar_sub(v, t, c), v, t)

assert_tvar_sub_tvar(a, b, c) ==
    Checked(c, Propagate([c EXCEPT !.edges = @ \cup { <<a, b>> }]), {a, b})

ThenTvarSubTvar(first, a, b) ==
    IF first.r # "Ok" THEN first ELSE assert_tvar_sub_tvar(a, b, first.ctx)

assert_tvar_eq_tvar(a, b, c) == ThenTvarSubTvar(assert_tvar_sub_tvar(a, b, c), b, a)

\* marks: unresolved, resolved to true (Var) or false (Const), or linked
\* to another mark they were unified with
gen_mark(c) == [c EXCEPT !.nmark = @ + 1, !.marks = Append(@, [m |-> "unresolved"])]

RECURSIVE MarkRoot(_, _)
MarkRoot(c, m) == IF c.marks[m].m = "link" THEN MarkRoot(c, c.marks[m].to) ELSE m

assert_mark(m, value, c) ==
    LET root == MarkRoot(c, m)
    IN IF c.marks[root].m = "unresolved"
           THEN Ok([c EXCEPT !.marks[root] = [m |-> value]])
       ELSE IF c.marks[root].m = value THEN Ok(c)
       ELSE MarkErr(c)

assert_mark_eq(m1, m2, c) ==
    LET r1 == MarkRoot(c, m1)
        r2 == MarkRoot(c, m2)
    IN IF r1 = r2 THEN Ok(c)
       ELSE IF c.marks[r1].m = "unresolved"
           THEN Ok([c EXCEPT !.marks[r1] = [m |-> "link", to |-> r2]])
       ELSE IF c.marks[r2].m = "unresolved"
           THEN Ok([c EXCEPT !.marks[r2] = [m |-> "link", to |-> r1]])
       ELSE IF c.marks[r1].m = c.marks[r2].m
           THEN Ok([c EXCEPT !.marks[r1] = [m |-> "link", to |-> r2]])
       ELSE MarkErr(c)

RECURSIVE VisitAssertSub(_, _, _), VisitRest(_, _, _)
\* Union::visit with assert_sub: the first failure ends the visit, what the
\* earlier members did to the context stays
VisitAssertSub(members, b, c) ==
    IF members = <<>> THEN Ok(c)
    ELSE VisitRest(TAssertSub(Head(members), b, c), Tail(members), b)

VisitRest(first, members, b) ==
    IF first.r # "Ok" THEN first ELSE VisitAssertSub(members, b, first.ctx)

\* a slot with the mark of its flavor choice
varcnst_mark(t, m) == [f |-> "VarOrConst", t |-> t, mark |-> m]

\* try!: the types are compared in the context the marks left
ThenSub(first, t1, t2) == IF first.r # "Ok" THEN first ELSE TAssertSub(t1, t2, first.ctx)

ThenEq(first, t1, t2) == IF first.r # "Ok" THEN first ELSE TAssertEq(t1, t2, first.ctx)

\* Slot::assert_sub: a read-only right side is covariant, a writable one
\* needs equal types, marks are constrained first
SlotAssertSub(s1, s2, c) ==
    IF s1.f \in { "Just", "Var", "Const" } /\ s2.f = "Const"
        THEN TAssertSub(s1.t, s2.t, c)
    ELSE IF s1.f = "Just" /\ s2.f = "Just" THEN TAssertSub(s1.t, s2.t, c)
    ELSE IF s1.f = "Var" /\ s2.f = "Var" THEN TAssertEq(s1.t, s2.t, c)
    ELSE IF s1.f = "VarOrConst" /\ s2.f = "Var"
        THEN ThenEq(assert_mark(s1.mark, "true", c), s1.t, s2.t)
    ELSE IF s1.f = "VarOrConst" /\ s2.f = "Const"
        THEN ThenSub(assert_mark(s1.mark, "false", c), s1.t, s2.t)
    ELSE IF s1.f = "VarOrConst" /\ s2.f = "VarOrConst"
        THEN ThenSub(assert_mark_eq(s1.mark, s2.mark, c), s1.t, s2.t)
    ELSE Err(c)

RECURSIVE SlotsAssertSub(_, _, _), SlotsRest(_, _, _)
\* the slots of two tuples, position by position
SlotsAssertSub(ss1, ss2, c) ==
    IF ss1 = <<>> THEN Ok(c)
    ELSE IF ss2 = <<>> THEN Err(c)
    ELSE SlotsRest(SlotAssertSub(Head(ss1), Head(ss2), c), Tail(ss1), Tail(ss2))

SlotsRest(first, ss1, ss2) ==
    IF first.r # "Ok" THEN first ELSE SlotsAssertSub(ss1, ss2, first.ctx)

RECURSIVE FieldsAssertSub(_, _, _, _), FieldsRest(_, _, _, _), FieldAssertSub(_, _, _, _, _)
\* the fields of two records, over the keys of the left one (value.rs:705-708)
FieldsAssertSub(keys, fa, fb, c) ==
    IF keys = {} THEN Ok(c)
    ELSE FieldAssertSub(CHOOSE key \in keys : TRUE, keys, fa, fb, c)

FieldAssertSub(key, keys, fa, fb, c) ==
    IF key \notin DOMAIN fb THEN Err(c)
    ELSE FieldsRest(SlotAssertSub(fa[key], fb[key], c), keys \ {key}, fa, fb)

FieldsRest(first, keys, fa, fb) ==
    IF first.r # "Ok" THEN first ELSE FieldsAssertSub(keys, fa, fb, first.ctx)

\* Tables::assert_sub
TablesAssertSub(a, b, c) ==
    IF b.c = "All" THEN Ok(c)
    ELSE IF a.c = "All" THEN Err(c)
    ELSE IF a.c = "Empty" /\ b.c = "Empty" THEN Ok(c)
    ELSE IF a.c = "Tuple" /\ b.c = "Tuple" THEN SlotsAssertSub(a.slots, b.slots, c)
    ELSE IF a.c = "Record" /\ b.c = "Record"
        THEN FieldsAssertSub(DOMAIN a.fields, a.fields, b.fields, c)
    ELSE IF a.c = "Array" /\ b.c = "Array" THEN SlotAssertSub(a.slot, b.slot, c)
    ELSE Err(c)

\* Union::assert_sub: every member of a fits b
UnionAssertSub(a, b, c) == VisitAssertSub(UnionMembers(a), TUnionOf(b), c)

\* TVar::assert_sub
TVarAssertSub(a, b, c) == assert_tvar_sub_tvar(a, b, c)

\* TVar::assert_eq
TVarAssertEq(a, b, c) == assert_tvar_eq_tvar(a, b, c)

Verdict(ok, c) == IF ok THEN Ok(c) ELSE Err(c)

FamilyKinds ==
    { "Nil", "Boolean", "True", "False", "Numbers", "Strings", "Tables", "Functions" }

\* variant: a boolean fits a union that holds one of true and false
FamilyArmSub_either(a, u, c) ==
    IF a.k = "Nil" THEN Verdict(u.has_nil, c)
    ELSE IF a.k = "Boolean" THEN Verdict(u.has_true \/ u.has_false, c)
    ELSE IF a.k = "True" THEN Verdict(u.has_true, c)
    ELSE IF a.k = "False" THEN Verdict(u.has_false, c)
    ELSE IF a.k = "Numbers"
        THEN Verdict(u.numbers # Absent /\ NumbersSub(a.n, u.numbers), c)
    ELSE IF a.k = "Strings"
        THEN Verdict(u.strings # Absent /\ StringsSub(a.st, u.strings), c)
    ELSE IF a.k = "Tables"
        THEN IF u.tables # Absent THEN TablesAssertSub(a.tab, u.tables, c) ELSE Err(c)
    ELSE Verdict(u.functions # Absent /\ FunctionsSub(a.fn, u.functions), c)

\* the arms of T::assert_sub for a type of one family against a union
\* (value.rs:385-405), in the order of the match
FamilyArmSub(a, u, c) ==
    IF a.k = "Nil" THEN Verdict(u.has_nil, c)
    ELSE IF a.k = "Boolean" THEN Verdict(u.has_true /\ u.has_false, c)
    ELSE IF a.k = "True" THEN Verdict(u.has_true, c)
    ELSE IF a.k = "False" THEN Verdict(u.has_false, c)
    ELSE IF a.k = "Numbers"
        THEN Verdict(u.numbers # Absent /\ NumbersSub(a.n, u.numbers), c)
    ELSE IF a.k = "Strings"
        THEN Verdict(u.strings # Absent /\ StringsSub(a.st, u.strings), c)
    ELSE IF a.k = "Tables"
        THEN IF u.tables # Absent THEN TablesAssertSub(a.tab, u.tables, c) ELSE Err(c)
    ELSE Verdict(u.functions # Absent /\ FunctionsSub(a.fn, u.functions), c)

\* variant: the variable-to-variable arm hands its operands over swapped
TVarArmSub_swapped(a, b, c) ==
    IF a.k = "TVar" /\ b.k = "TVar" THEN TVarAssertSub(b.v, a.v, c)
    ELSE IF b.k = "TVar" THEN assert_tvar_sup(b.v, a, c)
    ELSE assert_tvar_sub(a.v, b, c)

\* variant: a variable below a type is given the type as a lower bound
TVarArmSub_sup(a, b, c) ==
    IF a.k = "TVar" /\ b.k = "TVar" THEN TVarAssertSub(a.v, b.v, c)
    ELSE IF b.k = "TVar" THEN assert_tvar_sup(b.v, a, c)
    ELSE assert_tvar_sup(a.v, b, c)

\* the three type variable arms of T::assert_sub (value.rs:410-412)
TVarArmSub(a, b, c) ==
    IF a.k = "TVar" /\ b.k = "TVar" THEN TVarAssertSub(a.v, b.v, c)
    ELSE IF b.k = "TVar" THEN assert_tvar_sup(b.v, a, c)
    ELSE assert_tvar_sub(a.v, b, c)

\* T::assert_sub (value.rs:352-418), the arms in the order of the match
TAssertSub(a, b, c) ==
    IF a.k = "Builtin" /\ b.k = "Builtin" THEN TAssertSub(a.t, b.t, c)
    ELSE IF a.k = "Builtin" THEN TAssertSub(a.t, b, c)
    ELSE IF b.k = "Builtin" THEN TAssertSub(a, b.t, c)
    ELSE IF a.k = "Dynamic" THEN Ok(c)
    ELSE IF b.k = "Dynamic" THEN Ok(c)
    ELSE IF a.k = "None" THEN Ok(c)
    ELSE IF b.k = "None" THEN Err(c)
    ELSE IF a.k = "Nil" /\ b.k = "Nil" THEN Ok(c)
    ELSE IF a.k = "Boolean" /\ b.k = "Boolean" THEN Ok(c)
    ELSE IF a.k = "True" /\ b.k = "Boolean" THEN Ok(c)
    ELSE IF a.k = "True" /\ b.k = "True" THEN Ok(c)
    ELSE IF a.k = "False" /\ b.k = "Boolean" THEN Ok(c)
    ELSE IF a.k = "False" /\ b.k = "False" THEN Ok(c)
    ELSE IF a.k = "Numbers" /\ b.k = "Numbers" THEN Verdict(NumbersSub(a.n, b.n), c)
    ELSE IF a.k = "Strings" /\ b.k = "Strings" THEN Verdict(StringsSub(a.st, b.st), c)
    ELSE IF a.k = "Tables" /\ b.k = "Tables" THEN TablesAssertSub(a.tab, b.tab, c)
    ELSE IF a.k = "Functions" /\ b.k = "Functions"
        THEN Verdict(FunctionsSub(a.fn, b.fn), c)
    ELSE IF a.k = "Union" /\ b.k = "Union" THEN UnionAssertSub(a.u, b.u, c)
    ELSE IF a.k = "Union" THEN VisitAssertSub(UnionMembers(a.u), b, c)
    ELSE IF a.k \in FamilyKinds /\ b.k = "Union" THEN FamilyArmSub(a, b.u, c)
    ELSE IF a.k = "TVar" /\ b.k = "Union" /\ b.u.tvar # Absent THEN Err(c)
    ELSE IF a.k = "TVar" \/ b.k = "TVar" THEN TVarArmSub(a, b, c)
    ELSE Err(c)

\* Slot::assert_eq and Tables::assert_eq: same flavor, equal types
SlotAssertEq(s1, s2, c) ==
    IF s1.f # s2.f THEN Err(c)
    ELSE IF s1.f = "VarOrConst"
        THEN ThenEq(assert_mark_eq(s1.mark, s2.mark, c), s1.t, s2.t)
    ELSE TAssertEq(s1.t, s2.t, c)

RECURSIVE SlotsAssertEq(_, _, _), SlotsEqRest(_, _, _)
SlotsAssertEq(ss1, ss2, c) ==
    IF ss1 = <<>> /\ ss2 = <<>> THEN Ok(c)
    ELSE IF ss1 = <<>> \/ ss2 = <<>> THEN Err(c)
    ELSE SlotsEqRest(SlotAssertEq(Head(ss1), Head(ss2), c), Tail(ss1), Tail(ss2))

SlotsEqRest(first, ss1, ss2) ==
    IF first.r # "Ok" THEN first ELSE SlotsAssertEq(ss1, ss2, first.ctx)

TablesAssertEq(a, b, c) ==
    IF a.c = "Tuple" /\ b.c = "Tuple" THEN SlotsAssertEq(a.slots, b.slots, c)
    ELSE IF a.c = "Array" /\ b.c = "Array" THEN SlotAssertEq(a.slot, b.slot, c)
    ELSE Verdict(a = b, c)

\* the three type variable arms of T::assert_eq (value.rs:445-447)
TVarArmEq(a, b, c) ==
    IF a.k = "TVar" /\ b.k = "TVar" THEN TVarAssertEq(a.v, b.v, c)
    ELSE IF b.k = "TVar" THEN assert_tvar_eq(b.v, a, c)
    ELSE assert_tvar_eq(a.v, b, c)

\* T::assert_eq (value.rs:420-457), the arms in the order of the match
TAssertEq(a, b, c) ==
    IF a.k = "Builtin" /\ b.k = "Builtin" THEN TAssertEq(a.t, b.t, c)
    ELSE IF a.k = "Builtin" THEN TAssertEq(a.t, b, c)
    ELSE IF b.k = "Builtin" THEN TAssertEq(a, b.t, c)
    ELSE IF a.k = "Dynamic" THEN Ok(c)
    ELSE IF b.k = "Dynamic" THEN Ok(c)
    ELSE IF a.k = "None" THEN Ok(c)
    ELSE IF b.k = "None" THEN Err(c)
    ELSE IF a.k = "Nil" /\ b.k = "Nil" THEN Ok(c)
    ELSE IF a.k = "Boolean" /\ b.k = "Boolean" THEN Ok(c)
    ELSE IF a.k = "True" /\ b.k = "True" THEN Ok(c)
    ELSE IF a.k = "False" /\ b.k = "False" THEN Ok(c)
    ELSE IF a.k = "Numbers" /\ b.k = "Numbers" THEN Verdict(a.n = b.n, c)
    ELSE IF a.k = "Strings" /\ b.k = "Strings" THEN Verdict(a.st = b.st, c)
    ELSE IF a.k = "Tables" /\ b.k = "Tables" THEN TablesAssertEq(a.tab, b.tab, c)
    ELSE IF a.k = "Functions" /\ b.k = "Functions" THEN Verdict(a.fn = b.fn, c)
    ELSE IF a.k = "TVar" \/ b.k = "TVar" THEN TVarArmEq(a, b, c)
    ELSE IF a.k = "Union" /\ b.k = "Union" THEN Verdict(a.u = b.u, c)
    ELSE IF a.k = "Union" THEN Panic(c)
    ELSE IF b.k = "Union" THEN Panic(c)
    ELSE Err(c)

(***************************************************************************)
(* The assertions a checker makes on one TypeContext.                      *)
(***************************************************************************)
MaxTVars == 2
MaxMarks == 2
MaxAsserts == 3

GroundOperands == { integer, string }

TVarOperands(c) == { TTVar(v) : v \in 1..c.ntv }

ScalarOperands(c) == GroundOperands \cup TVarOperands(c)

\* two-slot tuples: a plain slot next to a slot whose flavor is a mark
TupleOperands(c) ==
    { tuple(<<just(t), varcnst_mark(integer, m)>>) :
          t \in TVarOperands(c) \cup { integer }, m \in 1..c.nmark }

\* the assertions that reach the context: a type variable on either side,
\* or two tuples
OperandPairs(c) ==
    { p \in ScalarOperands(c) \X ScalarOperands(c) : p[1].k = "TVar" \/ p[2].k = "TVar" }
    \cup (TupleOperands(c) \X TupleOperands(c))

NoAssert == [op |-> "none"]

\* the pair of variables an Ok assertion a <: b relates
NewlyAsserted(a, b, r) ==
    IF r = "Ok" /\ a.k = "TVar" /\ b.k = "TVar" THEN { <<a.v, b.v>> } ELSE {}

GenTvar ==
    /\ ctx.ntv < MaxTVars
    /\ ctx' = gen_tvar(ctx)
    /\ UNCHANGED <<last_assert, asserted, failed, nasserts, reqVars, repVars, latVars, tagVars, wsVars>>

GenMark ==
    /\ ctx.nmark < MaxMarks
    /\ ctx' = gen_mark(ctx)
    /\ UNCHANGED <<last_assert, asserted, failed, nasserts, reqVars, repVars, latVars, tagVars, wsVars>>

\* the context and the history after an assertion
Returned(op, a, b, res) ==
    /\ nasserts < MaxAsserts
    /\ nasserts' = nasserts + 1
    /\ ctx' = res.ctx
    /\ last_assert' = [op |-> op, a |-> a, b |-> b, r |-> res.r, clean |-> ~failed]
    /\ failed' = (failed \/ res.r # "Ok")

AssertMark(m, value) ==
    /\ m \in 1..ctx.nmark
    /\ Returned("mark", m, value, assert_mark(m, value, ctx))
    /\ UNCHANGED <<asserted, reqVars, repVars, latVars, tagVars, wsVars>>

AssertSub(a, b) ==
    /\ <<a, b>> \in OperandPairs(ctx)
    /\ Returned("sub", a, b, TAssertSub(a, b, ctx))
    /\ asserted' = asserted \cup NewlyAsserted(a, b, last_assert'.r)
    /\ UNCHANGED <<reqVars, repVars, latVars, tagVars, wsVars>>

AssertEq(a, b) ==
    /\ <<a, b>> \in OperandPairs(ctx)
    /\ Returned("eq", a, b, TAssertEq(a, b, ctx))
    /\ asserted' = asserted \cup NewlyAsserted(a, b, last_assert'.r)
                            \cup NewlyAsserted(b, a, last_assert'.r)
    /\ UNCHANGED <<reqVars, repVars, latVars, tagVars, wsVars>>

FullContext == [EmptyContext EXCEPT !.ntv = MaxTVars, !.nmark = MaxMarks]

\* subtype assertions between scalar types and type variables
NextContext ==
    \/ GenTvar
    \/ \E a \in ScalarOperands(FullContext), b \in ScalarOperands(FullContext) :
          AssertSub(a, b)

\* subtype and equality assertions between scalar types and type variables
NextBounds ==
    \/ GenTvar
    \/ \E a \in ScalarOperands(FullContext), b \in ScalarOperands(FullContext) :
          AssertSub(a, b)
    \/ \E a \in ScalarOperands(FullContext), b \in ScalarOperands(FullContext) :
          AssertEq(a, b)

\* mark assertions and subtype assertions between tuples whose slots carry
\* marks
NextMark ==
    \/ GenTvar
    \/ GenMark
    \/ \E m \in 1..MaxMarks, value \in { "true", "false" } : AssertMark(m, value)
    \/ \E a \in TupleOperands(FullContext), b \in TupleOperands(FullContext) :
          AssertSub(a, b)

(***************************************************************************)
(* kailua_workspace/src/lib.rs: configurations and workspace options.      *)
(***************************************************************************)
\* Option<_>
NoneOpt == [some |-> FALSE]

Some(x) == [some |-> TRUE, v |-> x]

\* PathBuf::join of a relative path: a path is a run of byte tokens, `/`
\* between its components
PathJoin(base, path) == base \o <<"/">> \o path

\* the index of the last `/` of a path, 0 when there is none
LastSlash(path) ==
    IF \E i \in 1..Len(path) : path[i] = "/"
        THEN CHOOSE i \in 1..Len(path) :
                 path[i] = "/" /\ \A j \in (i + 1)..Len(path) : path[j] # "/"
        ELSE 0

\* a path without the separators at its end; the root keeps its one
RECURSIVE TrimSlashes(_)
TrimSlashes(path) ==
    IF Len(path) > 1 /\ path[Len(path)] = "/"
        THEN TrimSlashes(SubSeq(path, 1, Len(path) - 1))
        ELSE path

\* the parent of a path that ends with its last component
ParentOfTrimmed(path) ==
    IF path = <<>> \/ path = <<"/">> THEN NoneOpt
    ELSE Some(TrimSlashes(SubSeq(path, 1, LastSlash(path))))

\* Path::parent: none for the empty path and for the root; separators at
\* the end of the path and those before its last component do not count
PathParent(path) == ParentOfTrimmed(TrimSlashes(path))

\* Path::display().to_string(): a byte run that is not UTF-8 is shown as
\* U+FFFD
PathDisplay(path) ==
    [i \in 1..Len(path) |-> IF path[i] = "\\xff" THEN "\\ufffd" ELSE path[i]]

\* the index of the first `{` or `}` of a byte string, 0 when there is none
FirstBrace(bytes) ==
    IF \E i \in 1..Len(bytes) : bytes[i] \in { "{", "}" }
        THEN CHOOSE i \in 1..Len(bytes) :
                 bytes[i] \in { "{", "}" } /\ \A j \in 1..(i - 1) : bytes[j] \notin { "{", "}" }
        ELSE 0

Prepended(bytes, rest) == IF rest.some THEN Some(bytes \o rest.v) ELSE NoneOpt

RECURSIVE ExpandFrom(_, _), ExpandVar(_, _, _)
\* variant: every variable name stands for the start directory
ExpandVar_any_name(before, rest, start_dir) ==
    IF FirstBrace(rest) = 0 THEN NoneOpt
    ELSE IF rest[FirstBrace(rest)] = "{" THEN NoneOpt
    ELSE Prepended(before \o start_dir,
                   ExpandFrom(SubSeq(rest, FirstBrace(rest) + 1, Len(rest)), start_dir))

\* the loop of apply_search_paths_template (lib.rs:368-397): the bytes up to
\* a `{`, the value of the variable it opens, and so on
ExpandFrom(search_paths, start_dir) ==
    IF FirstBrace(search_paths) = 0 THEN Some(search_paths)
    ELSE IF search_paths[FirstBrace(search_paths)] = "}" THEN NoneOpt
    ELSE ExpandVar(SubSeq(search_paths, 1, FirstBrace(search_paths) - 1),
                   SubSeq(search_paths, FirstBrace(search_paths) + 1, Len(search_paths)),
                   start_dir)

\* the variable between a `{` and its `}` (lib.rs:376-392): start_dir alone
ExpandVar(before, rest, start_dir) ==
    IF FirstBrace(rest) = 0 THEN NoneOpt
    ELSE IF rest[FirstBrace(rest)] = "{" THEN NoneOpt
    ELSE IF SubSeq(rest, 1, FirstBrace(rest) - 1) # <<"start_dir">> THEN NoneOpt
    ELSE Prepended(before \o start_dir,
                   ExpandFrom(SubSeq(rest, FirstBrace(rest) + 1, Len(rest)), start_dir))

\* variant: the empty parent is substituted as it is
apply_search_paths_template_nodot(search_paths, start_path) ==
    IF ~PathParent(start_path).some THEN NoneOpt
    ELSE ExpandFrom(search_paths, PathDisplay(PathParent(start_path).v))

\* apply_search_paths_template (lib.rs:357-398)
apply_search_paths_template(search_paths, start_path) ==
    IF ~PathParent(start_path).some THEN NoneOpt
    ELSE IF PathParent(start_path).v = <<>> THEN ExpandFrom(search_paths, PathDisplay(<<".">>))
    ELSE ExpandFrom(search_paths, PathDisplay(PathParent(start_path).v))

\* variant: a template without `?` does not pass
verify_search_paths_q(search_paths, start_paths) ==
    /\ \E i \in 1..Len(search_paths) : search_paths[i] = "?"
    /\ apply_search_paths_template(search_paths, <<"example.lua">>).some
    /\ \A i \in 1..Len(start_paths) :
          apply_search_paths_template(search_paths, start_paths[i]).some

\* verify_search_paths (lib.rs:126-137)
verify_search_paths(search_paths, start_paths) ==
    /\ apply_search_paths_template(search_paths, <<"example.lua">>).some
    /\ \A i \in 1..Len(start_paths) :
          apply_search_paths_template(search_paths, start_paths[i]).some

BaseDir == <<Root>>

\* Config::from_base_dir (lib.rs:82-92)
from_base_dir(base_dir) ==
    [base_dir |-> base_dir, config_path |-> NoneOpt, start_paths |-> <<>>,
     package_path |-> NoneOpt, package_cpath |-> NoneOpt,
     preload |-> [open |-> <<>>, require |-> <<>>], message_locale |-> NoneOpt]

\* Locale::new: the language tags that make a locale
LocaleNew(tag) == IF tag \in Langs THEN Some(tag) ELSE NoneOpt

CfgOk(c) == [ret |-> "Ok(true)", cfg |-> c]

CfgInvalid(c) == [ret |-> "Err(InvalidData)", cfg |-> c]

\* set_config_path from the preload field on (lib.rs:176-185)
LoadPreload(c, data) ==
    IF data.preload.some THEN CfgOk([c EXCEPT !.preload = data.preload.v]) ELSE CfgOk(c)

\* set_config_path from the message_lang field on (lib.rs:167-175)
LoadLocale(c, data) ==
    IF ~data.message_lang.some THEN LoadPreload([c EXCEPT !.message_locale = NoneOpt], data)
    ELSE IF ~LocaleNew(data.message_lang.v).some THEN CfgInvalid(c)
    ELSE LoadPreload([c EXCEPT !.message_locale = LocaleNew(data.message_lang.v)], data)

\* set_config_path from the package_cpath field on (lib.rs:158-166)
LoadCpath(c, data) ==
    IF ~data.package_cpath.some THEN LoadLocale([c EXCEPT !.package_cpath = NoneOpt], data)
    ELSE IF ~verify_search_paths(data.package_cpath.v, c.start_paths) THEN CfgInvalid(c)
    ELSE LoadLocale([c EXCEPT !.package_cpath = data.package_cpath], data)

\* set_config_path from the package_path field on (lib.rs:149-157)
LoadPath(c, data) ==
    IF ~data.package_path.some THEN LoadCpath([c EXCEPT !.package_path = NoneOpt], data)
    ELSE IF ~verify_search_paths(data.package_path.v, c.start_paths) THEN CfgInvalid(c)
    ELSE LoadCpath([c EXCEPT !.package_path = data.package_path], data)

\* set_config_path once the file is known not to be loaded yet
\* (lib.rs:139-185): the file is read and parsed, then the fields are
\* assigned one by one
LoadConfig(c, path, files) ==
    IF path \notin DOMAIN files THEN [ret |-> "Err(NotFound)", cfg |-> c]
    ELSE IF files[path].kind # "data" THEN CfgInvalid(c)
    ELSE LoadPath([c EXCEPT !.config_path = Some(path),
                           !.start_paths = [i \in 1..Len(files[path].start_path) |->
                                               PathJoin(c.base_dir, files[path].start_path[i])]],
                  files[path])

\* variant: a loaded configuration does not stop a later load
set_config_path_reload(c, path, files) == LoadConfig(c, path, files)

\* Config::set_config_path (lib.rs:100-186)
set_config_path(c, path, files) ==
    IF c.config_path.some THEN [ret |-> "Ok(false)", cfg |-> c]
    ELSE LoadConfig(c, path, files)

\* one set_config_path call as the history keeps it
CfgCall(c, path, res) == [path |-> path, ret |-> res.ret, before |-> c, after |-> res.cfg]

\* the second call of use_default_config_paths, made on what the first left
SecondDefault(first, files) ==
    <<first, CfgCall(first.after, PathJoin(first.after.base_dir, <<".vscode", "/", "kailua.json">>),
                     set_config_path(first.after,
                                     PathJoin(first.after.base_dir, <<".vscode", "/", "kailua.json">>),
                                     files))>>

\* Config::use_default_config_paths (lib.rs:188-194): its two calls
use_default_config_paths(c, files) ==
    SecondDefault(CfgCall(c, PathJoin(c.base_dir, <<"kailua.json">>),
                          set_config_path(c, PathJoin(c.base_dir, <<"kailua.json">>), files)),
                  files)

\* Workspace::new (lib.rs:212-226): none without a start path
WorkspaceNew(c, default_locale) ==
    IF c.start_paths = <<>> THEN NoneOpt
    ELSE Some([base_dir |-> c.base_dir, config_path |-> c.config_path,
               start_paths |-> c.start_paths, package_path |-> c.package_path,
               package_cpath |-> c.package_cpath, preload |-> c.preload,
               message_locale |-> IF c.message_locale.some THEN c.message_locale.v
                                  ELSE default_locale])

\* FsOptions::set_package_path and set_package_cpath (options.rs:55-65) as
\* a function of the bytes and the list they replace
SetPathList(bytes, list) ==
    IF FromUtf8Ok(bytes) THEN [ret |-> "Ok", list |-> SplitSemi(bytes, <<>>)]
    ELSE [ret |-> "Err", list |-> list]

\* the list of a new FsOptions after the configured template, if any, was
\* applied and set (lib.rs:259-264, 265-270); the expect panics
Configured(template, start_path, list) ==
    IF ~template.some THEN [panic |-> FALSE, list |-> list]
    ELSE IF ~apply_search_paths_template(template.v, start_path).some
        THEN [panic |-> TRUE, list |-> list]
    ELSE [panic |-> FALSE,
          list |-> SetPathList(apply_search_paths_template(template.v, start_path).v,
                               list).list]

\* WorkspaceOptions::new (lib.rs:257-277)
WorkspaceOptionsNew(start_path, ws) ==
    [panic |-> \/ Configured(ws.package_path, start_path, << <<"?", ".lua">> >>).panic
               \/ Configured(ws.package_cpath, start_path, <<>>).panic,
     package_path |-> Configured(ws.package_path, start_path, << <<"?", ".lua">> >>).list,
     package_cpath |-> Configured(ws.package_cpath, start_path, <<>>).list,
     can_update_package_path |-> ~ws.package_path.some,
     can_update_package_cpath |-> ~ws.package_cpath.some]

\* a forwarded call: what FsOptions returned, no warning
Forwarded(res) == [ret |-> res.ret, list |-> res.list, warned |-> <<>>]

\* a refused call: the warning, the list as it was
Refused(list, message) == [ret |-> "Ok", list |-> list, warned |-> <<message>>]

\* variant: package.path is frozen by the flag of package.cpath
ws_set_package_path_cflag(opt, bytes, list) ==
    IF opt.can_update_package_cpath THEN Forwarded(SetPathList(bytes, list))
    ELSE Refused(list, "PackagePathIsExplicitlySet")

\* WorkspaceOptions::set_package_path (lib.rs:281-289)
ws_set_package_path(opt, bytes, list) ==
    IF opt.can_update_package_path THEN Forwarded(SetPathList(bytes, list))
    ELSE Refused(list, "PackagePathIsExplicitlySet")

\* WorkspaceOptions::set_package_cpath (lib.rs:291-299)
ws_set_package_cpath(opt, bytes, list) ==
    IF opt.can_update_package_cpath THEN Forwarded(SetPathList(bytes, list))
    ELSE Refused(list, "PackageCpathIsExplicitlySet")

(***************************************************************************)
(* Inputs of the configuration model.                                      *)
(***************************************************************************)
\* the paths set_config_path is called with: the two default ones and one
\* the caller names
ConfigPaths ==
    { PathJoin(BaseDir, <<"kailua.json">>),
      PathJoin(BaseDir, <<".vscode", "/", "kailua.json">>),
      PathJoin(BaseDir, <<"my.json">>) }

ConfigData(start_path, pp, cp, message_lang, preload) ==
    [kind |-> "data", start_path |-> start_path, package_path |-> pp,
     package_cpath |-> cp, message_lang |-> message_lang, preload |-> preload]

\* what a configuration file can hold: text that is not a ConfigData, or a
\* ConfigData (its package_path, package_cpath and message_lang good or bad)
ConfigContents ==
    { [kind |-> "garbage"],
      ConfigData(<< <<"main.lua">> >>, NoneOpt, NoneOpt, NoneOpt, NoneOpt),
      ConfigData(<< <<"src", "/", "main.lua">> >>,
                 Some(<<"{", "start_dir", "}", "/", "?", ".lua">>), NoneOpt, Some("ko"),
                 Some([open |-> << <<"lua51">> >>, require |-> <<>>])),
      ConfigData(<< <<"main.lua">> >>, Some(<<"{", "no_dir", "}", "/", "?">>),
                 NoneOpt, NoneOpt, NoneOpt),
      ConfigData(<<>>, NoneOpt, Some(<<"?", ".so">>), Some("xx"), NoneOpt) }

Missing == [kind |-> "missing"]

\* the files on disk: each path missing or holding one of the contents
ConfigFileStates ==
    { [path \in { q \in ConfigPaths : f[q] # Missing } |-> f[path]] :
          f \in [ConfigPaths -> ConfigContents \cup { Missing }] }

\* a Config as from_base_dir leaves it, or with fields set from the
\* command line
InitialConfigs ==
    { from_base_dir(BaseDir),
      [from_base_dir(BaseDir) EXCEPT !.start_paths = << PathJoin(BaseDir, <<"cli.lua">>) >>,
                                     !.package_path = Some(<<"cli/", "?", ".lua">>)] }

NoConfigFiles == <<>>

NoCfgCall == [op |-> "none"]

NoWorkspace == NoneOpt

NoOptions == [built |-> "no"]

NoOptCall == [op |-> "none"]

NoFnCall == [op |-> "none"]

IdleConfig == from_base_dir(BaseDir)

SetConfigPath(path) ==
    /\ config' = set_config_path(config, path, cfiles).cfg
    /\ last_cfg' = [op |-> "set_config_path",
                    calls |-> << CfgCall(config, path, set_config_path(config, path, cfiles)) >>]
    /\ UNCHANGED <<cfiles, workspace, wopt, warnings, last_opt, last_fn,
                   reqVars, repVars, latVars, ctxVars, tagVars>>

UseDefaultConfigPaths ==
    /\ config' = use_default_config_paths(config, cfiles)[2].after
    /\ last_cfg' = [op |-> "use_default_config_paths",
                    calls |-> use_default_config_paths(config, cfiles)]
    /\ UNCHANGED <<cfiles, workspace, wopt, warnings, last_opt, last_fn,
                   reqVars, repVars, latVars, ctxVars, tagVars>>

\* Workspace::new with the default locale of the caller
MakeWorkspace ==
    /\ workspace' = WorkspaceNew(config, "en")
    /\ workspace' # workspace
    /\ UNCHANGED <<cfiles, config, last_cfg, wopt, warnings, last_opt, last_fn,
                   reqVars, repVars, latVars, ctxVars, tagVars>>

NextConfig ==
    \/ \E path \in ConfigPaths : SetConfigPath(path)
    \/ UseDefaultConfigPaths
    \/ MakeWorkspace

MaxWarnings == 1

\* workspaces with package_path and package_cpath configured or not
WorkspaceStates ==
    { WorkspaceNew([from_base_dir(BaseDir) EXCEPT
                        !.start_paths = << PathJoin(BaseDir, <<"main.lua">>) >>,
                        !.package_path = pp, !.package_cpath = cp], "en") :
          pp \in { NoneOpt, Some(<<"{", "start_dir", "}", "/", "lib/", "?", ".lua">>) },
          cp \in { NoneOpt, Some(<<"?", ".so">>) } }

\* start paths handed to WorkspaceOptions::new; the empty one has no parent
StartPaths == { PathJoin(BaseDir, <<"main.lua">>), <<"main.lua">>, <<>> }

\* sources with a chunk for module m under the default template and under
\* the configured one, expanded
WsFsStates ==
    { [path \in present |-> [tag |-> "Some", val |-> path]] :
          present \in SUBSET { ProbePath(<<"?", ".lua">>, <<"m">>, <<>>),
                               ProbePath(<<Root, "/", "lib/", "?", ".lua">>, <<"m">>, <<>>) } }

BuildOptions(start_path) ==
    /\ wopt.built = "no"
    /\ workspace.some
    /\ IF WorkspaceOptionsNew(start_path, workspace.v).panic
       THEN wopt' = [built |-> "panic"] /\ UNCHANGED <<package_path, package_cpath>>
       ELSE /\ wopt' = [built |-> "yes",
                        can_update_package_path |->
                            WorkspaceOptionsNew(start_path, workspace.v).can_update_package_path,
                        can_update_package_cpath |->
                            WorkspaceOptionsNew(start_path, workspace.v).can_update_package_cpath]
            /\ package_path' = WorkspaceOptionsNew(start_path, workspace.v).package_path
            /\ package_cpath' = WorkspaceOptionsNew(start_path, workspace.v).package_cpath
    /\ UNCHANGED <<fs, req, cfiles, config, last_cfg, workspace, warnings, last_opt, last_fn,
                   repVars, latVars, ctxVars, tagVars>>

WsSetPackagePath(bytes) ==
    /\ wopt.built = "yes"
    /\ Len(warnings \o ws_set_package_path(wopt, bytes, package_path).warned) <= MaxWarnings
    /\ package_path' = ws_set_package_path(wopt, bytes, package_path).list
    /\ warnings' = warnings \o ws_set_package_path(wopt, bytes, package_path).warned
    /\ last_opt' = [op |-> "set_package_path", arg |-> bytes,
                    ret |-> ws_set_package_path(wopt, bytes, package_path).ret]
    /\ UNCHANGED <<package_cpath, fs, req, cfiles, config, last_cfg, workspace, wopt, last_fn,
                   repVars, latVars, ctxVars, tagVars>>

WsSetPackageCpath(bytes) ==
    /\ wopt.built = "yes"
    /\ Len(warnings \o ws_set_package_cpath(wopt, bytes, package_cpath).warned) <= MaxWarnings
    /\ package_cpath' = ws_set_package_cpath(wopt, bytes, package_cpath).list
    /\ warnings' = warnings \o ws_set_package_cpath(wopt, bytes, package_cpath).warned
    /\ last_opt' = [op |-> "set_package_cpath", arg |-> bytes,
                    ret |-> ws_set_package_cpath(wopt, bytes, package_cpath).ret]
    /\ UNCHANGED <<package_path, fs, req, cfiles, config, last_cfg, workspace, wopt, last_fn,
                   repVars, latVars, ctxVars, tagVars>>

\* WorkspaceOptions::require_chunk (lib.rs:301-304): forwarded
WsRequireChunk(bytes) ==
    /\ wopt.built = "yes"
    /\ RequireChunk(bytes)

NextWorkspace ==
    \/ \E start_path \in StartPaths : BuildOptions(start_path)
    \/ \E bytes \in PathStrings : WsSetPackagePath(bytes)
    \/ \E bytes \in CPathStrings : WsSetPackageCpath(bytes)
    \/ \E bytes \in ModuleNames : WsRequireChunk(bytes)

(***************************************************************************)
(* The free functions of lib.rs, called on their own.                      *)
(***************************************************************************)
MaxTemplate == 4    \* templates of up to this many tokens, all of them

\* the braces, the variable and a byte that is none of them
TemplateBytes == { "{", "}", "start_dir", "?" }

\* the templates of test_apply_search_paths_template (lib.rs:402-423)
TestTemplates ==
    { <<"?", ".lua">>,
      <<"{", "start_dir", "}", "/", "?", ".lua">>,
      <<"a/", "{", "start_dir", "}", "/", "?", ";", "?", "/", "{", "start_dir", "}", ".lua">>,
      <<"{", "{", "start_dir", "}", "}", "/", "?", ".lua">>,
      <<"?", ".lua", ";", "{", "start_dir">>,
      <<"?", ".lua", ";", "{", "no_dir", "}", "/", "?", ".lua">>,
      <<"?", ".lua", ";", "{", "}", "/", "?", ".lua">>,
      <<"?", ".lua", ";", "{">>,
      <<"?", ".lua", ";", "}", "/", "?", ".lua">> }

SearchPathTemplates ==
    TestTemplates \cup UNION { [1..n -> TemplateBytes] : n \in 0..MaxTemplate }

\* start paths: those of the tests, the two without a parent, one under the
\* root and one in a directory whose name is not UTF-8
TemplateStartPaths ==
    { <<"foo", "/", "bar.lua">>, <<"bar.lua">>, <<"p", "/", "/", "q">>,
      <<>>, <<"/">>, <<"/", "main.lua">>, <<"\\xff", "/", "m.lua">> }

\* one call, its inputs drawn from the sets above
ApplyTemplate(search_paths, start_path) ==
    /\ last_fn = NoFnCall
    /\ last_fn' = [op |-> "apply_search_paths_template",
                   search_paths |-> search_paths, start_path |-> start_path,
                   ret |-> apply_search_paths_template(search_paths, start_path)]
    /\ UNCHANGED <<cfiles, config, last_cfg, workspace, wopt, warnings, last_opt,
                   reqVars, repVars, latVars, ctxVars, tagVars>>

NextTemplate ==
    \E search_paths \in SearchPathTemplates, start_path \in TemplateStartPaths :
        ApplyTemplate(search_paths, start_path)

(***************************************************************************)
(* dehumanize_json (lib.rs:307-346).  A text is a sequence of characters,  *)
(* each a string of length one.                                            *)
(***************************************************************************)
Quote == "\""

Backslash == "\\"

FirstNonZero(a, b, c) == IF a # 0 THEN a ELSE IF b # 0 THEN b ELSE c

\* the end of the match of `(?:\\.|[^"])*"` from position p of s, 0 when
\* there is none (lib.rs:316): the escape is tried first, then any
\* character that is not a quote, then the closing quote
RECURSIVE StrMatch(_, _)
StrMatch(s, p) ==
    IF p > Len(s) THEN 0
    ELSE FirstNonZero(IF s[p] = Backslash /\ p + 1 <= Len(s) THEN StrMatch(s, p + 2) ELSE 0,
                      IF s[p] # Quote THEN StrMatch(s, p + 1) ELSE 0,
                      IF s[p] = Quote THEN p ELSE 0)

\* the end of the match of `//[^\r\n]*` from position p of s, the
\* characters after the two slashes (lib.rs:317)
RECURSIVE LineEnd(_, _)
LineEnd(s, p) ==
    IF p > Len(s) \/ s[p] \in { "\r", "\n" } THEN p - 1 ELSE LineEnd(s, p + 1)

\* the end of the match of `.*?\*/` from position p of s, 0 when there is
\* none (lib.rs:318)
RECURSIVE BlockEnd(_, _)
BlockEnd(s, p) ==
    IF p + 1 > Len(s) THEN 0
    ELSE IF s[p] = "*" /\ s[p + 1] = "/" THEN p + 1
    ELSE BlockEnd(s, p + 1)

\* variant: a quote is a character like any other
TokenLen_no_strings(s) ==
    IF Len(s) >= 2 /\ s[1] = "/" /\ s[2] = "/" THEN LineEnd(s, 3)
    ELSE IF Len(s) >= 2 /\ s[1] = "/" /\ s[2] = "*" /\ BlockEnd(s, 3) # 0 THEN BlockEnd(s, 3)
    ELSE 1

\* the length of the match of TOKEN_PATTERN at the start of a text that is
\* not empty (lib.rs:315-320): the first alternative that matches
TokenLen(s) ==
    IF s[1] = Quote /\ StrMatch(s, 2) # 0 THEN StrMatch(s, 2)
    ELSE IF Len(s) >= 2 /\ s[1] = "/" /\ s[2] = "/" THEN LineEnd(s, 3)
    ELSE IF Len(s) >= 2 /\ s[1] = "/" /\ s[2] = "*" /\ BlockEnd(s, 3) # 0 THEN BlockEnd(s, 3)
    ELSE 1

\* TOKEN_PATTERN.find_iter (lib.rs:325): the matches, one after the other
RECURSIVE Tokens(_)
Tokens(s) ==
    IF s = <<>> THEN <<>>
    ELSE <<SubSeq(s, 1, TokenLen(s))>> \o Tokens(SubSeq(s, TokenLen(s) + 1, Len(s)))

IsCommentTok(tok) == Len(tok) >= 2 /\ tok[1] = "/" /\ tok[2] \in { "/", "*" }

IsSpaceTok(tok) == tok \in { <<" ">>, <<"\t">>, <<"\n">>, <<"\r">> }

\* the loop of dehumanize_json from token i on (lib.rs:325-344): what it
\* pushes to out, prev_was_comma as the tokens before left it
RECURSIVE PushFrom(_, _, _)
PushFrom(toks, i, prev_was_comma) ==
    IF i > Len(toks) THEN (IF prev_was_comma THEN <<",">> ELSE <<>>)
    ELSE IF IsCommentTok(toks[i]) THEN <<" ">> \o PushFrom(toks, i + 1, prev_was_comma)
    ELSE IF IsSpaceTok(toks[i]) THEN toks[i] \o PushFrom(toks, i + 1, prev_was_comma)
    ELSE (IF prev_was_comma /\ toks[i] \notin { <<"]">>, <<"}">> } THEN <<",">> ELSE <<>>)
         \o (IF toks[i] = <<",">> THEN <<>> ELSE toks[i])
         \o PushFrom(toks, i + 1, toks[i] = <<",">>)

\* dehumanize_json (lib.rs:310-346)
dehumanize_json(s) == PushFrom(Tokens(s), 1, FALSE)

MaxJson == 4    \* texts of up to this many characters, all of them

JsonChars == { Quote, Backslash, "/", "*", ",", "]", "\n", " ", "x" }

\* the texts of test_dehumanize_json (lib.rs:351-354)
JsonTests ==
    { <<"[", "3", ",", " ", "4", "/", "*", "5", "*", "/", "6", "]">>,
      <<"[", "3", ",", " ", "4", "/", "/", "5", ",", " ", "6", "]", "\n", "7">>,
      <<"[", "3", ",", " ", Quote, "4", "/", "/", "5", Quote, ",", " ",
        Quote, "/", "*", "6", "*", "/", Quote, "]">>,
      <<"[", "3", ",", " ", "4", ",", " ", "5", ",", "\n", "/", "*", "w", "a", "t", "*", "/",
        "\n", "/", "/", " ", "?", "?", "?", "\n", "]">> }

\* longer texts: a comma before a comment and a bracket, escapes in a
\* string, markers of one comment inside another, a comma at the end
JsonSamples ==
    { <<",", "/", "*", "*", "/", "]">>,
      <<",", "/", "/", "x", "\n", "}">>,
      <<Quote, Backslash, Quote, ",", "]", Quote, ",", " ", "]">>,
      <<Quote, Backslash, Backslash, Quote, "/", "/", Quote>>,
      <<"/", "*", "/", "/", "\n", "*", "/", ",", ",", "]">>,
      <<"/", "/", "/", "*", "\n", ",", "\t", "\r", "}", ",">>,
      <<"{", Quote, "a", Quote, ":", "1", ",", "/", "*", Quote, "*", "/", "}">> }

JsonTexts == JsonTests \cup JsonSamples \cup UNION { [1..n -> JsonChars] : n \in 0..MaxJson }

\* one call, its input drawn from the texts above
DehumanizeJson(s) ==
    /\ last_fn = NoFnCall
    /\ last_fn' = [op |-> "dehumanize_json", s |-> s, ret |-> dehumanize_json(s)]
    /\ UNCHANGED <<cfiles, config, last_cfg, workspace, wopt, warnings, last_opt,
                   reqVars, repVars, latVars, ctxVars, tagVars>>

NextJson == \E s \in JsonTexts : DehumanizeJson(s)

\* a configuration file at the first default path: its package_path any of
\* the templates, its package_cpath none, one with `?`, one without or
\* one with an open brace
VerifyFileStates ==
    { [path \in { PathJoin(BaseDir, <<"kailua.json">>) } |->
          ConfigData(<< <<"src", "/", "main.lua">> >>, pp, cp, NoneOpt, NoneOpt)] :
          pp \in { NoneOpt } \cup { Some(t) : t \in SearchPathTemplates },
          cp \in { NoneOpt, Some(<<"?", ".so">>), Some(<<"lib.so">>),
                   Some(<<"{", "start_dir", "?", ".so">>) } }

\* from the configuration file to the options made of it
NextVerify ==
    \/ \E path \in ConfigPaths : SetConfigPath(path)
    \/ UseDefaultConfigPaths
    \/ MakeWorkspace
    \/ \E start_path \in StartPaths : BuildOptions(start_path)

(***************************************************************************)
(* kailua_types/src/ty/tag.rs: the attribute tags.                         *)
(***************************************************************************)
\* enum Tag (tag.rs:7-136)
Tags ==
    { "_Subtype", "_NoSubtype", "_NoSubtype2", "Require", "Type", "Assert",
      "AssertNot", "AssertType", "GenericPairs", "GlobalEnv", "GlobalEval",
      "BecomeModule", "PackagePath", "PackageCpath", "StringMeta", "MakeClass",
      "Constructible", "Constructor", "KailuaGenTvar", "KailuaAssertTvar" }

\* Tag::needs_subtype (tag.rs:219-232)
needs_subtype(tag) ==
    IF tag = "_Subtype" THEN TRUE
    ELSE IF tag \in { "_NoSubtype", "_NoSubtype2" } THEN FALSE
    ELSE IF tag \in { "PackagePath", "PackageCpath", "Constructible", "Constructor" }
        THEN FALSE
    ELSE TRUE

\* no tag: the None of Option<Tag>
NoTag == "None"

Found(tag) == [tag |-> tag, warned |-> FALSE]

\* variant: the two internally created tags have an arm as well
TagFrom_constructible(name) ==
    CASE name = <<"internal ", "constructible">> -> Found("Constructible")
      [] name = <<"internal ", "constructor">> -> Found("Constructor")
      [] name = <<"require">> -> Found("Require")
      [] OTHER -> [tag |-> NoTag, warned |-> TRUE]

\* Tag::from (tag.rs:139-167): a name is a byte string, written as the word
\* `internal ` (when it starts with it) and the rest; an unknown name is
\* warned about and gives no tag
TagFrom(name) ==
    CASE name = <<"internal ", "subtype">> -> Found("_Subtype")
      [] name = <<"internal ", "no_subtype">> -> Found("_NoSubtype")
      [] name = <<"internal ", "no_subtype2">> -> Found("_NoSubtype2")
      [] name = <<"require">> -> Found("Require")
      [] name = <<"type">> -> Found("Type")
      [] name = <<"assert">> -> Found("Assert")
      [] name = <<"assert_not">> -> Found("AssertNot")
      [] name = <<"assert_type">> -> Found("AssertType")
      [] name = <<"generic_pairs">> -> Found("GenericPairs")
      [] name = <<"genv">> -> Found("GlobalEnv")
      [] name = <<"geval">> -> Found("GlobalEval")
      [] name = <<"become_module">> -> Found("BecomeModule")
      [] name = <<"package_path">> -> Found("PackagePath")
      [] name = <<"package_cpath">> -> Found("PackageCpath")
      [] name = <<"string_meta">> -> Found("StringMeta")
      [] name = <<"make_class">> -> Found("MakeClass")
      [] name = <<"internal ", "kailua_gen_tvar">> -> Found("KailuaGenTvar")
      [] name = <<"internal ", "kailua_assert_tvar">> -> Found("KailuaAssertTvar")
      [] OTHER -> [tag |-> NoTag, warned |-> TRUE]

\* variant: GlobalEval is named as GlobalEnv is
TagName_genv_twice(tag) ==
    CASE tag = "GlobalEnv" -> <<"genv">>
      [] tag = "GlobalEval" -> <<"genv">>
      [] OTHER -> <<"require">>

\* Tag::name (tag.rs:169-193)
TagName(tag) ==
    CASE tag = "Require" -> <<"require">>
      [] tag = "Type" -> <<"type">>
      [] tag = "Assert" -> <<"assert">>
      [] tag = "AssertNot" -> <<"assert_not">>
      [] tag = "AssertType" -> <<"assert_type">>
      [] tag = "GenericPairs" -> <<"generic_pairs">>
      [] tag = "GlobalEnv" -> <<"genv">>
      [] tag = "GlobalEval" -> <<"geval">>
      [] tag = "BecomeModule" -> <<"become_module">>
      [] tag = "PackagePath" -> <<"package_path">>
      [] tag = "PackageCpath" -> <<"package_cpath">>
      [] tag = "StringMeta" -> <<"string_meta">>
      [] tag = "MakeClass" -> <<"make_class">>
      [] tag = "_Subtype" -> <<"internal ", "subtype">>
      [] tag = "_NoSubtype" -> <<"internal ", "no_subtype">>
      [] tag = "_NoSubtype2" -> <<"internal ", "no_subtype2">>
      [] tag = "Constructible" -> <<"internal ", "constructible">>
      [] tag = "Constructor" -> <<"internal ", "constructor">>
      [] tag = "KailuaGenTvar" -> <<"internal ", "kailua_gen_tvar">>
      [] tag = "KailuaAssertTvar" -> <<"internal ", "kailua_assert_tvar">>

\* attribute names a source can hold: the names of tag.rs and names no tag has
AttrNames ==
    { <<"require">>, <<"type">>, <<"assert">>, <<"assert_not">>, <<"assert_type">>,
      <<"generic_pairs">>, <<"genv">>, <<"geval">>, <<"become_module">>,
      <<"package_path">>, <<"package_cpath">>, <<"string_meta">>, <<"make_class">>,
      <<"internal ", "subtype">>, <<"internal ", "no_subtype">>,
      <<"internal ", "no_subtype2">>, <<"internal ", "constructible">>,
      <<"internal ", "constructor">>, <<"internal ", "kailua_gen_tvar">>,
      <<"internal ", "kailua_assert_tvar">>,
      <<"internal ">>, <<"internal ", "types">>, <<"internal">>, <<"Require">>,
      <<"types">>, <<>> }

NoTagCall == [op |-> "none"]

\* Tag::from on an attribute name, and the name of the tag it returned
ParseAttr ==
    /\ tres.op = "none"
    /\ tres' = [op |-> "from", name |-> attr, tag |-> TagFrom(attr).tag,
                warned |-> TagFrom(attr).warned,
                back |-> IF TagFrom(attr).tag = NoTag THEN <<>>
                         ELSE TagName(TagFrom(attr).tag)]
    /\ UNCHANGED <<attr, tagv, reqVars, repVars, latVars, ctxVars, wsVars>>

\* Tag::name on a tag, and the tag Tag::from returns for that name
TakeName ==
    /\ tres.op = "none"
    /\ tres' = [op |-> "name", tag |-> tagv, name |-> TagName(tagv),
                back |-> TagFrom(TagName(tagv)).tag]
    /\ UNCHANGED <<attr, tagv, reqVars, repVars, latVars, ctxVars, wsVars>>

NextTag == ParseAttr \/ TakeName

\* the shapes the tags are documented on (tag.rs:13-135)
TagShapes == { function, string }

\* an untagged type next to the same type under a tag, either way round
TaggedPairs ==
    { <<x, TBuiltin(tag, x)>> : tag \in Tags, x \in TagShapes }
    \cup { <<TBuiltin(tag, x), x>> : tag \in Tags, x \in TagShapes }

AssertSubTagged(a, b) ==
    /\ <<a, b>> \in TaggedPairs
    /\ Returned("sub", a, b, TAssertSub(a, b, ctx))
    /\ UNCHANGED <<asserted, reqVars, repVars, latVars, tagVars, wsVars>>

AssertEqTagged(a, b) ==
    /\ <<a, b>> \in TaggedPairs
    /\ Returned("eq", a, b, TAssertEq(a, b, ctx))
    /\ UNCHANGED <<asserted, reqVars, repVars, latVars, tagVars, wsVars>>

\* subtype and equality assertions between tagged and untagged types
NextTagged ==
    \/ \E p \in TaggedPairs : AssertSubTagged(p[1], p[2])
    \/ \E p \in TaggedPairs : AssertEqTagged(p[1], p[2])

\* the operands of a join that is then asserted: two scalars, not two
\* different type variables
JoinOperands(c) ==
    { p \in ScalarOperands(c) \X ScalarOperands(c) :
          p[1].k = "TVar" /\ p[2].k = "TVar" => p[1] = p[2] }

\* u = a.union(b) followed by x.assert_sub(u) for an operand x of the join
UnionThenSub(a, b, x) ==
    /\ <<a, b>> \in JoinOperands(ctx)
    /\ x \in { a, b }
    /\ Returned("union_sub", x, TUnion(a, b), TAssertSub(x, TUnion(a, b), ctx))
    /\ UNCHANGED <<asserted, reqVars, repVars, latVars, tagVars, wsVars>>

\* joins of scalar types and type variables, each operand asserted below
NextJoin ==
    \/ GenTvar
    \/ \E a \in ScalarOperands(FullContext), b \in ScalarOperands(FullContext) :
          \E x \in ScalarOperands(FullContext) : UnionThenSub(a, b, x)

\* types of one family, and the two that fit every arm
FamilyTypes ==
    { TDynamic, TNone, TNil, TBoolean, TTrue, TFalse,
      integer, int(3), string, str("s"), func("f"), array(just(integer)) }

\* unions with two or three fields set, as T::union makes them
UnionTypes ==
    { TUnion(TNil, integer), TUnion(TTrue, string), TUnion(TBoolean, int(3)),
      TUnion(TFalse, func("f")), TUnion(str("s"), array(just(integer))) }

\* assert_sub and assert_eq between any two of them
AssertSubPlain(a, b) ==
    /\ a \in FamilyTypes \cup UnionTypes
    /\ b \in FamilyTypes \cup UnionTypes
    /\ Returned("sub", a, b, TAssertSub(a, b, ctx))
    /\ UNCHANGED <<asserted, reqVars, repVars, latVars, tagVars, wsVars>>

AssertEqPlain(a, b) ==
    /\ a \in FamilyTypes \cup UnionTypes
    /\ b \in FamilyTypes \cup UnionTypes
    /\ Returned("eq", a, b, TAssertEq(a, b, ctx))
    /\ UNCHANGED <<asserted, reqVars, repVars, latVars, tagVars, wsVars>>

\* subtype and equality assertions between types without type variables
NextPlain ==
    \/ \E a \in FamilyTypes \cup UnionTypes, b \in FamilyTypes \cup UnionTypes :
          AssertSubPlain(a, b)
    \/ \E a \in FamilyTypes \cup UnionTypes, b \in FamilyTypes \cup UnionTypes :
          AssertEqPlain(a, b)

(***************************************************************************)
(* Inputs of the lattice model: well-formed types without type variables.  *)
(***************************************************************************)
SlotPool == { just(integer), var(integer), cnst(integer), curr(integer) }

TypeUniverse ==
    { TDynamic, TNone, TNil, TBoolean, TTrue, TFalse,
      number, integer, int(3), int(4),
      string, str("s"),
      function, func("f"),
      table, empty_table, map(string, just(integer)),
      record([b |-> just(integer)]),
      TBuiltin("Require", function), TBuiltin("Type", integer),
      TBuiltin("Require", integer),
      TUnion(TNil, integer), TUnion(integer, string) }
    \cup { array(sl) : sl \in SlotPool }
    \cup { tuple(<<sl>>) : sl \in SlotPool }
    \cup { tuple(<<just(integer), sl>>) :
            sl \in { var(integer), curr(integer), just(string) } }
    \cup { record([a |-> sl]) : sl \in SlotPool }

NoUnions == [done |-> FALSE]

\* the unions a caller computes from three operands; T is a value type
\* and every call works on its own clones
ApplyUnion ==
    /\ ~ures.done
    /\ ures' = [done |-> TRUE,
                aa |-> TUnion(ua, ua),
                ab |-> TUnion(ua, ub),
                ba |-> TUnion(ub, ua),
                ab_c |-> TUnion(TUnion(ua, ub), uc),
                a_bc |-> TUnion(ua, TUnion(ub, uc)),
                lhs_after |-> OperandAfter(ua, ub),
                rhs_after |-> OperandAfter(ub, ua)]
    /\ UNCHANGED <<ua, ub, uc, reqVars, repVars, ctxVars, tagVars, wsVars>>

NextUnion == ApplyUnion

Init ==
    /\ InitReq /\ InitReport
    /\ ua = TNone /\ ub = TNone /\ uc = TNone /\ ures = NoUnions
    /\ ctx = EmptyContext /\ last_assert = NoAssert /\ asserted = {} /\ failed = FALSE
    /\ nasserts = 0
    /\ attr = <<"require">>
    /\ tagv = "Require"
    /\ tres = NoTagCall
    /\ cfiles = NoConfigFiles
    /\ config = IdleConfig
    /\ last_cfg = NoCfgCall
    /\ workspace = NoWorkspace
    /\ wopt = NoOptions
    /\ warnings = <<>>
    /\ last_opt = NoOptCall
    /\ last_fn = NoFnCall

Next ==
    \/ NextReq \/ NextReport \/ NextUnion \/ NextContext \/ NextBounds \/ NextMark
    \/ NextJoin \/ NextTagged \/ NextTag \/ NextConfig \/ NextWorkspace
    \/ NextTemplate \/ NextVerify \/ NextJson \/ NextPlain

Spec == Init /\ [][Next]_vars

\* module resolution alone, the report as constructed
InitRequire ==
    /\ package_path = << <<"?", ".lua">> >>
    /\ package_cpath = <<>>
    /\ fs \in FsStates
    /\ req = IdleReq
    /\ lang = "en"
    /\ alive = TRUE
    /\ queue = <<>>
    /\ proxies = {}
    /\ next_id = 0
    /\ sent = <<>>
    /\ got = <<>>
    /\ last_add = NoAdd
    /\ last_get = NoGet
    /\ ua = TNone
    /\ ub = TNone
    /\ uc = TNone
    /\ ures = NoUnions
    /\ ctx = EmptyContext
    /\ last_assert = NoAssert
    /\ asserted = {}
    /\ failed = FALSE
    /\ nasserts = 0
    /\ attr = <<"require">>
    /\ tagv = "Require"
    /\ tres = NoTagCall
    /\ cfiles = NoConfigFiles
    /\ config = IdleConfig
    /\ last_cfg = NoCfgCall
    /\ workspace = NoWorkspace
    /\ wopt = NoOptions
    /\ warnings = <<>>
    /\ last_opt = NoOptCall
    /\ last_fn = NoFnCall

SpecRequire == InitRequire /\ [][NextReq]_vars

\* the report alone, the options as constructed over an empty source
InitMailbox ==
    /\ package_path = << <<"?", ".lua">> >>
    /\ package_cpath = <<>>
    /\ fs = <<>>
    /\ req = IdleReq
    /\ lang \in Langs
    /\ alive = TRUE
    /\ queue = <<>>
    /\ proxies = {}
    /\ next_id = 0
    /\ sent = <<>>
    /\ got = <<>>
    /\ last_add = NoAdd
    /\ last_get = NoGet
    /\ ua = TNone
    /\ ub = TNone
    /\ uc = TNone
    /\ ures = NoUnions
    /\ ctx = EmptyContext
    /\ last_assert = NoAssert
    /\ asserted = {}
    /\ failed = FALSE
    /\ nasserts = 0
    /\ attr = <<"require">>
    /\ tagv = "Require"
    /\ tres = NoTagCall
    /\ cfiles = NoConfigFiles
    /\ config = IdleConfig
    /\ last_cfg = NoCfgCall
    /\ workspace = NoWorkspace
    /\ wopt = NoOptions
    /\ warnings = <<>>
    /\ last_opt = NoOptCall
    /\ last_fn = NoFnCall

SpecReport == InitMailbox /\ [][NextReport]_vars

\* the lattice alone: three operands drawn from the universe
InitLattice ==
    /\ package_path = << <<"?", ".lua">> >>
    /\ package_cpath = <<>>
    /\ fs = <<>>
    /\ req = IdleReq
    /\ lang = "en"
    /\ alive = TRUE
    /\ queue = <<>>
    /\ proxies = {}
    /\ next_id = 0
    /\ sent = <<>>
    /\ got = <<>>
    /\ last_add = NoAdd
    /\ last_get = NoGet
    /\ ua \in TypeUniverse
    /\ ub \in TypeUniverse
    /\ uc \in TypeUniverse
    /\ ures = NoUnions
    /\ ctx = EmptyContext
    /\ last_assert = NoAssert
    /\ asserted = {}
    /\ failed = FALSE
    /\ nasserts = 0
    /\ attr = <<"require">>
    /\ tagv = "Require"
    /\ tres = NoTagCall
    /\ cfiles = NoConfigFiles
    /\ config = IdleConfig
    /\ last_cfg = NoCfgCall
    /\ workspace = NoWorkspace
    /\ wopt = NoOptions
    /\ warnings = <<>>
    /\ last_opt = NoOptCall
    /\ last_fn = NoFnCall

SpecUnion == InitLattice /\ [][NextUnion]_vars

\* the constraint solver alone: a context as Context::new leaves it
InitContext ==
    /\ package_path = << <<"?", ".lua">> >>
    /\ package_cpath = <<>>
    /\ fs = <<>>
    /\ req = IdleReq
    /\ lang = "en"
    /\ alive = TRUE
    /\ queue = <<>>
    /\ proxies = {}
    /\ next_id = 0
    /\ sent = <<>>
    /\ got = <<>>
    /\ last_add = NoAdd
    /\ last_get = NoGet
    /\ ua = TNone
    /\ ub = TNone
    /\ uc = TNone
    /\ ures = NoUnions
    /\ ctx = EmptyContext
    /\ last_assert = NoAssert
    /\ asserted = {}
    /\ failed = FALSE
    /\ nasserts = 0
    /\ attr = <<"require">>
    /\ tagv = "Require"
    /\ tres = NoTagCall
    /\ cfiles = NoConfigFiles
    /\ config = IdleConfig
    /\ last_cfg = NoCfgCall
    /\ workspace = NoWorkspace
    /\ wopt = NoOptions
    /\ warnings = <<>>
    /\ last_opt = NoOptCall
    /\ last_fn = NoFnCall

SpecContext == InitContext /\ [][NextContext]_vars

\* the same context under subtype and equality assertions
SpecBounds == InitContext /\ [][NextBounds]_vars

\* the same context under tuple assertions
SpecMark == InitContext /\ [][NextMark]_vars

SpecJoin == InitContext /\ [][NextJoin]_vars

SpecTagged == InitContext /\ [][NextTagged]_vars

SpecPlain == InitContext /\ [][NextPlain]_vars

\* the tags alone: an attribute name and a tag drawn from their sets
InitTag ==
    /\ package_path = << <<"?", ".lua">> >>
    /\ package_cpath = <<>>
    /\ fs = <<>>
    /\ req = IdleReq
    /\ lang = "en"
    /\ alive = TRUE
    /\ queue = <<>>
    /\ proxies = {}
    /\ next_id = 0
    /\ sent = <<>>
    /\ got = <<>>
    /\ last_add = NoAdd
    /\ last_get = NoGet
    /\ ua = TNone
    /\ ub = TNone
    /\ uc = TNone
    /\ ures = NoUnions
    /\ ctx = EmptyContext
    /\ last_assert = NoAssert
    /\ asserted = {}
    /\ failed = FALSE
    /\ nasserts = 0
    /\ attr \in AttrNames
    /\ tagv \in Tags
    /\ tres = NoTagCall
    /\ cfiles = NoConfigFiles
    /\ config = IdleConfig
    /\ last_cfg = NoCfgCall
    /\ workspace = NoWorkspace
    /\ wopt = NoOptions
    /\ warnings = <<>>
    /\ last_opt = NoOptCall
    /\ last_fn = NoFnCall

SpecTag == InitTag /\ [][NextTag]_vars

\* the configuration alone: a Config and the files on disk
InitConfig ==
    /\ package_path = << <<"?", ".lua">> >>
    /\ package_cpath = <<>>
    /\ fs = <<>>
    /\ req = IdleReq
    /\ lang = "en"
    /\ alive = TRUE
    /\ queue = <<>>
    /\ proxies = {}
    /\ next_id = 0
    /\ sent = <<>>
    /\ got = <<>>
    /\ last_add = NoAdd
    /\ last_get = NoGet
    /\ ua = TNone
    /\ ub = TNone
    /\ uc = TNone
    /\ ures = NoUnions
    /\ ctx = EmptyContext
    /\ last_assert = NoAssert
    /\ asserted = {}
    /\ failed = FALSE
    /\ nasserts = 0
    /\ attr = <<"require">>
    /\ tagv = "Require"
    /\ tres = NoTagCall
    /\ cfiles \in ConfigFileStates
    /\ config \in InitialConfigs
    /\ last_cfg = NoCfgCall
    /\ workspace = NoWorkspace
    /\ wopt = NoOptions
    /\ warnings = <<>>
    /\ last_opt = NoOptCall
    /\ last_fn = NoFnCall

SpecConfig == InitConfig /\ [][NextConfig]_vars

\* the options of a workspace: a Workspace and a source
InitWorkspace ==
    /\ package_path = << <<"?", ".lua">> >>
    /\ package_cpath = <<>>
    /\ fs \in WsFsStates
    /\ req = IdleReq
    /\ lang = "en"
    /\ alive = TRUE
    /\ queue = <<>>
    /\ proxies = {}
    /\ next_id = 0
    /\ sent = <<>>
    /\ got = <<>>
    /\ last_add = NoAdd
    /\ last_get = NoGet
    /\ ua = TNone
    /\ ub = TNone
    /\ uc = TNone
    /\ ures = NoUnions
    /\ ctx = EmptyContext
    /\ last_assert = NoAssert
    /\ asserted = {}
    /\ failed = FALSE
    /\ nasserts = 0
    /\ attr = <<"require">>
    /\ tagv = "Require"
    /\ tres = NoTagCall
    /\ cfiles = NoConfigFiles
    /\ config = IdleConfig
    /\ last_cfg = NoCfgCall
    /\ workspace \in WorkspaceStates
    /\ wopt = NoOptions
    /\ warnings = <<>>
    /\ last_opt = NoOptCall
    /\ last_fn = NoFnCall

SpecWorkspace == InitWorkspace /\ [][NextWorkspace]_vars

\* the free functions of lib.rs alone: nothing built, no call made
InitFn ==
    /\ package_path = << <<"?", ".lua">> >>
    /\ package_cpath = <<>>
    /\ fs = <<>>
    /\ req = IdleReq
    /\ lang = "en"
    /\ alive = TRUE
    /\ queue = <<>>
    /\ proxies = {}
    /\ next_id = 0
    /\ sent = <<>>
    /\ got = <<>>
    /\ last_add = NoAdd
    /\ last_get = NoGet
    /\ ua = TNone
    /\ ub = TNone
    /\ uc = TNone
    /\ ures = NoUnions
    /\ ctx = EmptyContext
    /\ last_assert = NoAssert
    /\ asserted = {}
    /\ failed = FALSE
    /\ nasserts = 0
    /\ attr = <<"require">>
    /\ tagv = "Require"
    /\ tres = NoTagCall
    /\ cfiles = NoConfigFiles
    /\ config = IdleConfig
    /\ last_cfg = NoCfgCall
    /\ workspace = NoWorkspace
    /\ wopt = NoOptions
    /\ warnings = <<>>
    /\ last_opt = NoOptCall
    /\ last_fn = NoFnCall

\* a configuration file with templates, loaded and used
InitVerify ==
    /\ package_path = << <<"?", ".lua">> >>
    /\ package_cpath = <<>>
    /\ fs = <<>>
    /\ req = IdleReq
    /\ lang = "en"
    /\ alive = TRUE
    /\ queue = <<>>
    /\ proxies = {}
    /\ next_id = 0
    /\ sent = <<>>
    /\ got = <<>>
    /\ last_add = NoAdd
    /\ last_get = NoGet
    /\ ua = TNone
    /\ ub = TNone
    /\ uc = TNone
    /\ ures = NoUnions
    /\ ctx = EmptyContext
    /\ last_assert = NoAssert
    /\ asserted = {}
    /\ failed = FALSE
    /\ nasserts = 0
    /\ attr = <<"require">>
    /\ tagv = "Require"
    /\ tres = NoTagCall
    /\ cfiles \in VerifyFileStates
    /\ config = IdleConfig
    /\ last_cfg = NoCfgCall
    /\ workspace = NoWorkspace
    /\ wopt = NoOptions
    /\ warnings = <<>>
    /\ last_opt = NoOptCall
    /\ last_fn = NoFnCall

SpecVerify == InitVerify /\ [][NextVerify]_vars

\* apply_search_paths_template alone
SpecTemplate == InitFn /\ [][NextTemplate]_vars

\* dehumanize_json alone
SpecJson == InitFn /\ [][NextJson]_vars

(***************************************************************************)
(* C1: require_chunk probes, in this order, every package_path template    *)
(* with suffix .kailua, every package_path template with no suffix, every  *)
(* package_cpath template with suffix .kailua; it returns the chunk of the *)
(* first probe that yields Some and probes nothing after it; when every    *)
(* probe yields None it returns `module not found`; a package_cpath        *)
(* template is never probed without the .kailua suffix.                    *)
(***************************************************************************)
ProbeOrder(name, pp, cp) ==
    [i \in 1..(2 * Len(pp) + Len(cp)) |->
        IF i <= Len(pp) THEN ProbePath(pp[i], name, <<".kailua">>)
        ELSE IF i <= 2 * Len(pp) THEN ProbePath(pp[i - Len(pp)], name, <<>>)
        ELSE ProbePath(cp[i - 2 * Len(pp)], name, <<".kailua">>)]

C1_ProbeOrder ==
    (req.result.tag # "Idle" /\ FromUtf8Ok(req.name)) =>
        LET order == ProbeOrder(req.name, req.pp, req.cp)
            n == Len(req.probes)
            somes == { i \in 1..Len(order) : ChunkFromPath(order[i]).tag = "Some" }
            errs == { i \in 1..Len(order) : ChunkFromPath(order[i]).tag = "Err" }
        IN  /\ IsPrefix(req.probes, order)
            /\ \A i \in 1..(n - 1) : ChunkFromPath(req.probes[i]).tag = "None"
            /\ req.result.tag = "Ok" =>
                  /\ n >= 1
                  /\ ChunkFromPath(req.probes[n]) = [tag |-> "Some", val |-> req.result.val]
                  /\ req.result.val = req.probes[n]
            /\ \A i \in somes :
                  (\A j \in 1..(i - 1) : j \notin somes \cup errs) =>
                      /\ req.result = [tag |-> "Ok", val |-> order[i]]
                      /\ n = i
            /\ (somes \cup errs = {}) <=>
                  req.result = [tag |-> "Err", val |-> <<"module not found">>]
            /\ req.result = [tag |-> "Err", val |-> <<"module not found">>] =>
                  req.probes = order
            /\ \A j \in 1..Len(req.cp) : \A i \in 1..n :
                  req.probes[i] = ProbePath(req.cp[j], req.name, <<>>) =>
                      \E k \in 1..Len(req.pp) :
                          req.probes[i] \in { ProbePath(req.pp[k], req.name, <<>>),
                                              ProbePath(req.pp[k], req.name, <<".kailua">>) }

\* a module found as the .kailua sidecar of a package_cpath template, after
\* both passes over two package_path templates found nothing
C1_Witness ==
    /\ req.result.tag = "Ok"
    /\ Len(req.pp) = 2
    /\ Len(req.cp) = 1
    /\ Len(req.probes) = 5
    /\ req.result.val = ProbePath(req.cp[1], req.name, <<".kailua">>)

(***************************************************************************)
(* C2: with proxies adding diagnostics and a reader calling get_next,     *)
(* every diagnostic whose send succeeded is returned by exactly one       *)
(* get_next call with return value 1 (while the report exists it is       *)
(* either still pending or was returned once: none lost, none             *)
(* duplicated), the diagnostics of one proxy are returned in the order    *)
(* they were added, and get_next returns 0 (kind Note, dummy span, empty  *)
(* message) only when no diagnostic is pending.                           *)
(***************************************************************************)
OfProxy(ds, p) == SelectSeq(ds, LAMBDA d : d.proxy = p)

C2_Mailbox ==
    /\ alive => \A p \in ProxyIds :
           OfProxy(sent, p) = OfProxy(got, p) \o OfProxy(queue, p)
    /\ alive => Len(sent) = Len(got) + Len(queue)
    /\ last_get.out.ret = 0 =>
           /\ last_get.pending = 0
           /\ last_get.out = EmptyGet
    /\ last_get.out.ret = 1 => last_get.pending > 0

(***************************************************************************)
(* C3: add_span returns Stop if and only if the send failed (the receiver *)
(* is gone) or the kind is Fatal; a Fatal diagnostic with a live receiver *)
(* is still enqueued before Stop is returned; in every other case the     *)
(* diagnostic is enqueued exactly once and Ok is returned.                *)
(***************************************************************************)
C3_AddSpanResult ==
    [][ next_id' # next_id =>
          LET a == last_add'
              n == Len(queue)
          IN  /\ (a.ret = "Stop") <=> (~alive \/ a.kind = "Fatal")
              /\ a.ret \in { "Stop", "Ok" }
              /\ alive =>
                    /\ Len(queue') = n + 1
                    /\ SubSeq(queue', 1, n) = queue
                    /\ queue'[n + 1].id = a.id
                    /\ queue'[n + 1].kind = a.kind
                    /\ queue'[n + 1].proxy = a.proxy
              /\ ~alive => queue' = queue
      ]_vars

\* a Fatal diagnostic added while the receiver lives: Stop, and enqueued
C3_Witness ==
    /\ last_add.kind = "Fatal"
    /\ last_add.rcv
    /\ last_add.ret = "Stop"
    /\ queue # <<>>
    /\ queue[Len(queue)].id = last_add.id

(***************************************************************************)
(* The slot flavors that occur in a type.                                  *)
(***************************************************************************)
TabSlots(tab) ==
    IF tab.c = "Tuple" THEN { tab.slots[i] : i \in 1..Len(tab.slots) }
    ELSE IF tab.c = "Record" THEN { tab.fields[key] : key \in DOMAIN tab.fields }
    ELSE IF tab.c \in { "Array", "Map" } THEN { tab.slot }
    ELSE {}

RECURSIVE TFlavors(_)
TFlavors(t) ==
    IF t.k = "Builtin" THEN TFlavors(t.t)
    ELSE IF t.k = "Tables" THEN { sl.f : sl \in TabSlots(t.tab) }
    ELSE IF t.k = "Union" /\ t.u.tables # Absent
        THEN { sl.f : sl \in TabSlots(t.u.tables) }
    ELSE {}

OperandFlavors == TFlavors(ua) \cup TFlavors(ub) \cup TFlavors(uc)

(***************************************************************************)
(* C8: union idempotence.  As stated (every well-formed type, slots of     *)
(* flavor Var, Const or Currently included) T::union(a, a) equals a.       *)
(***************************************************************************)
C8_Idempotent == ures.done => ures.aa = ua

\* C8, amended: T::union(a, a) equals a when every table slot of a has
\* flavor Just or Const; a type with a Var or Currently slot is united with
\* itself into a different type, the slot becoming VarOrConst.
C8_IdempotentJustConst ==
    ures.done =>
        /\ TFlavors(ua) \subseteq { "Just", "Const" } => ures.aa = ua
        /\ TFlavors(ua) \cap { "Var", "Currently" } # {} =>
              /\ ures.aa # ua
              /\ "VarOrConst" \in TFlavors(ures.aa)

C8_Witness ==
    /\ ures.done
    /\ ua.k = "Tables"
    /\ "Const" \in TFlavors(ua)
    /\ ures.aa = ua

(***************************************************************************)
(* C9: union associativity.  As stated (all well-formed types, any mix of  *)
(* slot flavors) (a \/ b) \/ c equals a \/ (b \/ c).                       *)
(***************************************************************************)
C9_Associative == ures.done => ures.ab_c = ures.a_bc

\* C9, amended: (a \/ b) \/ c equals a \/ (b \/ c) when the table slots of
\* the three operands draw their flavors from Just and Const only, or from
\* Just, Var and Currently only.
C9_AssociativeUnmixed ==
    ures.done /\ (\/ OperandFlavors \subseteq { "Just", "Const" }
                  \/ OperandFlavors \subseteq { "Just", "Var", "Currently" })
        => ures.ab_c = ures.a_bc

C9_Witness ==
    /\ ures.done
    /\ ua.k = "Builtin"
    /\ "Var" \in TFlavors(ub)
    /\ "Currently" \in TFlavors(uc)
    /\ ures.ab_c.k = "Union"
    /\ ures.ab_c = ures.a_bc

(***************************************************************************)
(* C10: union commutativity: T::union(a, b) equals T::union(b, a) for all  *)
(* well-formed types, differently tagged operands, boolean literals and    *)
(* tables of unequal arity or key sets included.                           *)
(***************************************************************************)
C10_Commutative == ures.done => ures.ab = ures.ba

C10_Witness ==
    /\ ures.done
    /\ ua.k = "Builtin" /\ ub.k = "Builtin" /\ ua.b # ub.b
    /\ uc.k = "Tables" /\ uc.tab.c = "Tuple"
    /\ ures.ab = ures.ba
    /\ ures.ab # ua
    /\ ures.ab # ub
(***************************************************************************)
(* Reading the history of a context.                                       *)
(***************************************************************************)
\* an assertion has just returned
Called == nasserts' = nasserts + 1

\* a subtype assertion of a type variable against a scalar type has just
\* returned, on a context no assertion had failed on
CalledTvarSub ==
    /\ Called
    /\ ~failed
    /\ last_assert'.op = "sub"
    /\ last_assert'.a.k = "TVar"
    /\ last_assert'.b.k # "TVar"

RECURSIVE Later(_)
\* the variables a chain of asserted edges leads to
Later(vs) ==
    LET more == vs \cup { e[2] : e \in { x \in asserted : x[1] \in vs } }
    IN IF more = vs THEN vs ELSE Later(more)

C5_UpperBound ==
    [][ CalledTvarSub =>
          LET v == last_assert'.a.v
              t == last_assert'.b
          IN /\ (/\ ctx.upper[v] = TDynamic
                 /\ ctx.lower[v] = TNone
                 /\ \A e \in ctx.edges : v \notin { e[1], e[2] })
                    => last_assert'.r = "Ok"
             /\ ctx.upper[v] = t => last_assert'.r = "Ok"
             /\ last_assert'.r = "Ok" => ctx'.upper[v] = TMeet(ctx'.upper[v], t)
             /\ TMeet(ctx.upper[v], t) = TNone => last_assert'.r = "Err" ]_vars

C5_Witness ==
    /\ nasserts = 3
    /\ ctx.ntv = 1
    /\ ctx.edges = {}
    /\ ctx.lower[1] = TNone
    /\ ctx.upper[1] = TNone
    /\ last_assert = [op |-> "sub", a |-> TTVar(1), b |-> string, r |-> "Err",
                      clean |-> TRUE]

(***************************************************************************)
(* C6: after any sequence of gen_tvar and assertions on one context,       *)
(* failed ones included, every variable has lower <: upper.                *)
(***************************************************************************)
C6_BoundsConsistent ==
    \A v \in 1..ctx.ntv : GroundSub(ctx.lower[v], ctx.upper[v])

(***************************************************************************)
(* C7: an assertion that fails on a mark leaves the context without any    *)
(* edge or bound that was absent before the call.                          *)
(***************************************************************************)
C7_MarkFailureLeavesContext ==
    [][ (Called /\ last_assert'.r = "CannotResolveMark")
          => /\ ctx'.edges = ctx.edges
             /\ ctx'.lower = ctx.lower
             /\ ctx'.upper = ctx.upper ]_vars

(***************************************************************************)
(* None as the identity of union.                                          *)
(***************************************************************************)

\* C11 (as stated): for every type a, tagged Builtin types included,
\* T::union(None, a) and T::union(a, None) are equal to a
C11_NoneIdentity ==
    (ures.done /\ ua = TNone) => (ures.ab = ub /\ ures.ba = ub)

\* C11 (amended): T::union(None, a) and T::union(a, None) are equal to a for
\* every a that is not a tagged Builtin type; for Builtin(tag, t) both are
\* the untagged t, because the tags are stripped before the None arms
C11_NoneIdentityUntagged ==
    (ures.done /\ ua = TNone) =>
        /\ ures.ab = ures.ba
        /\ ures.ab = (IF ub.k = "Builtin" THEN ub.t ELSE ub)

C11_Witness ==
    /\ ures.done
    /\ ua = TNone
    /\ ub.k = "Tables" /\ ub.tab.c = "Record"
    /\ ures.ab = ub
    /\ ures.ba = ub


(***************************************************************************)
(* Operands and their join.                                                *)
(***************************************************************************)

\* C12: every operand is a subtype of its join: with u = T::union(a, b),
\* assert_sub(a, u) and assert_sub(b, u) succeed, also when a is a type
\* variable and b a concrete type of another family
C12_OperandBelowJoin ==
    last_assert.op = "union_sub" => last_assert.r = "Ok"


(***************************************************************************)
(* Tags that need the strict subtyping rule.                               *)
(***************************************************************************)
\* the tag of the tagged operand of the last assertion
TagAsserted ==
    IF last_assert.a.k = "Builtin" THEN last_assert.a.b ELSE last_assert.b.b

\* C13: when needs_subtype() of a tag is true, T::assert_sub and
\* T::assert_eq between an untagged x and Builtin(tag, x) do not succeed;
\* the untagged type is accepted only for tags whose needs_subtype() is false
C13_StrictTags ==
    (last_assert.op \in { "sub", "eq" } /\ needs_subtype(TagAsserted))
        => last_assert.r # "Ok"


(***************************************************************************)
(* Attribute names and tags.                                               *)
(***************************************************************************)

\* what follows `internal ` in the names of the tags kept for tests
\* (tag.rs:8-11, 125-135)
TestOnlyNames ==
    { <<"subtype">>, <<"no_subtype">>, <<"no_subtype2">>, <<"kailua_gen_tvar">>,
      <<"kailua_assert_tvar">> }

\* C14 (as stated): Tag::from returns no tag for every attribute name that
\* begins with `internal `
C14_InternalRejected ==
    (tres.op = "from" /\ IsPrefix(<<"internal ">>, tres.name)) => tres.tag = NoTag

\* C14 (amended): Tag::from never returns Constructible or Constructor, and
\* returns no tag (with a warning) for `internal constructible`, for
\* `internal constructor` and for every `internal ` name outside
\* `internal subtype`, `internal no_subtype`, `internal no_subtype2`,
\* `internal kailua_gen_tvar` and `internal kailua_assert_tvar`, which it
\* accepts
C14_InternallyCreatedRejected ==
    tres.op = "from" =>
        /\ tres.tag \notin { "Constructible", "Constructor" }
        /\ IsPrefix(<<"internal ">>, tres.name) =>
              IF Tail(tres.name) \in TestOnlyNames
                  THEN tres.tag \in { "_Subtype", "_NoSubtype", "_NoSubtype2",
                                      "KailuaGenTvar", "KailuaAssertTvar" }
                  ELSE tres.tag = NoTag /\ tres.warned

C14_Witness ==
    /\ tres.op = "from"
    /\ tres.name = <<"internal ", "constructor">>
    /\ tres.tag = NoTag
    /\ tres.warned

\* C15: Tag::name of the tag Tag::from returns for a name is that name;
\* Tag::from of the name of a tag other than Constructible and Constructor
\* is that tag; distinct tags have distinct names
C15_NamesRoundTrip ==
    /\ (tres.op = "from" /\ tres.tag # NoTag) => tres.back = tres.name
    /\ (tres.op = "name" /\ tres.tag \notin { "Constructible", "Constructor" })
          => tres.back = tres.tag
    /\ \A t1 \in Tags, t2 \in Tags :
          (tres.op = "name" /\ t1 = tres.tag /\ TagName(t2) = tres.name) => t1 = t2

C15_Witness ==
    /\ tres.op = "name"
    /\ tres.tag = "GlobalEval"
    /\ tres.name = <<"geval">>
    /\ tres.back = "GlobalEval"


(***************************************************************************)
(* Joins of tables.                                                        *)
(***************************************************************************)
BothTables == ures.done /\ ua.k = "Tables" /\ ub.k = "Tables"

Shaped == { "Tuple", "Record", "Array", "Map" }

\* C16 (as stated): two table shapes of different kinds among Tuple, Record,
\* Array and Map always join to Tables::All
C16_CrossShapeAll ==
    (BothTables /\ ua.tab.c \in Shaped /\ ub.tab.c \in Shaped /\ ua.tab.c # ub.tab.c)
        => ures.ab = table

\* C16 (amended): two table shapes of different kinds among Tuple, Record,
\* Array and Map join to Tables::All, except an array and a map, which join
\* (in either order) to a map
C16_CrossShapeAllButArrayMap ==
    (BothTables /\ ua.tab.c \in Shaped /\ ub.tab.c \in Shaped /\ ua.tab.c # ub.tab.c) =>
        IF { ua.tab.c, ub.tab.c } = { "Array", "Map" }
            THEN ures.ab.k = "Tables" /\ ures.ab.tab.c = "Map"
            ELSE ures.ab = table

C16_Witness ==
    /\ BothTables
    /\ ua.tab.c = "Array" /\ ub.tab.c = "Map"
    /\ ures.ab.tab.c = "Map"
    /\ uc.k = "Tables" /\ uc.tab.c = "Record"
    /\ ures.ab_c = table

\* the slots of table x that table y has no slot for, each with the slot
\* of the join r that came from it
OneSided(x, y, r) ==
    IF x.c = "Tuple" /\ y.c = "Tuple"
        THEN { <<x.slots[i], r.slots[i]>> : i \in (Len(y.slots) + 1)..Len(x.slots) }
    ELSE IF x.c = "Tuple" /\ y.c = "Empty"
        THEN { <<x.slots[i], r.slots[i]>> : i \in 1..Len(x.slots) }
    ELSE IF x.c = "Record" /\ y.c = "Record"
        THEN { <<x.fields[key], r.fields[key]>> : key \in DOMAIN x.fields \ DOMAIN y.fields }
    ELSE {}

OneSidedSlots ==
    IF BothTables
        THEN OneSided(ua.tab, ub.tab, ures.ab.tab) \cup OneSided(ub.tab, ua.tab, ures.ab.tab)
        ELSE {}

\* C17 (as stated): a slot that only one side of a table join has comes out
\* with type (original type | nil) and flavor VarOrConst, whatever its flavor
C17_OneSidedVarOrConst ==
    \A p \in OneSidedSlots :
        p[2].t = TUnion(p[1].t, TNil) /\ p[2].f = "VarOrConst"

\* C17 (amended): a slot that only one side of a table join has comes out
\* with type (original type | nil); a Just slot stays Just, a Var or
\* Currently slot becomes VarOrConst
C17_OneSidedJoinsJustNil ==
    \A p \in OneSidedSlots :
        /\ p[2].t = TUnion(p[1].t, TNil)
        /\ p[1].f = "Just" => p[2].f = "Just"
        /\ p[1].f \in { "Var", "Currently" } => p[2].f = "VarOrConst"

C17_Witness ==
    /\ BothTables
    /\ ua.tab.c = "Tuple" /\ ub.tab.c = "Tuple"
    /\ Len(ua.tab.slots) = 1 /\ Len(ub.tab.slots) = 2
    /\ ub.tab.slots[2].f = "Currently"
    /\ ures.ab.tab.slots[2] = Slot("VarOrConst", TUnion(integer, TNil))
    /\ uc = record([a |-> just(integer)])
    /\ OneSided(uc.tab, record([b |-> just(integer)]).tab,
                TUnion(uc, record([b |-> just(integer)])).tab)
           = { <<just(integer), just(TUnion(integer, TNil))>> }

\* C18 (as stated): Empty | X and X | Empty are equal to X for every table
\* shape X, slot types and flavors unchanged
C18_EmptyIdentity ==
    (BothTables /\ ua.tab.c = "Empty") => (ures.ab = ub /\ ures.ba = ub)

\* C18 (amended): Empty | X and X | Empty are equal to X for every table
\* shape X other than a tuple; for a tuple the join is a tuple of the same
\* length whose slot types are the original types joined with nil
C18_EmptyIdentityButTuple ==
    (BothTables /\ ua.tab.c = "Empty") =>
        /\ ures.ab = ures.ba
        /\ ub.tab.c # "Tuple" => ures.ab = ub
        /\ ub.tab.c = "Tuple" =>
              /\ ures.ab.k = "Tables" /\ ures.ab.tab.c = "Tuple"
              /\ Len(ures.ab.tab.slots) = Len(ub.tab.slots)
              /\ \A i \in 1..Len(ub.tab.slots) :
                    ures.ab.tab.slots[i].t = TUnion(ub.tab.slots[i].t, TNil)

C18_Witness ==
    /\ BothTables
    /\ ua.tab.c = "Empty" /\ ub.tab.c = "Array"
    /\ ub.tab.slot.f = "Var"
    /\ ures.ab = ub
    /\ ures.ba = ub


(***************************************************************************)
(* The search for a configuration file.                                    *)
(***************************************************************************)
\* the calls of the last use_default_config_paths: BASE/kailua.json first,
\* BASE/.vscode/kailua.json second, the second one refused when the first
\* one has set config_path
DefaultOrder ==
    last_cfg.op = "use_default_config_paths" =>
        /\ Len(last_cfg.calls) = 2
        /\ last_cfg.calls[1].path = PathJoin(config.base_dir, <<"kailua.json">>)
        /\ last_cfg.calls[2].path =
               PathJoin(config.base_dir, <<".vscode", "/", "kailua.json">>)
        /\ last_cfg.calls[2].before = last_cfg.calls[1].after
        /\ last_cfg.calls[1].after.config_path.some =>
               /\ last_cfg.calls[2].ret = "Ok(false)"
               /\ config = last_cfg.calls[1].after

\* a call on a Config whose config_path is set returns Ok(false) and
\* changes no field
LoadedStays ==
    (config.config_path.some /\ last_cfg' # last_cfg) =>
        /\ config' = config
        /\ \A i \in DOMAIN last_cfg'.calls : last_cfg'.calls[i].ret = "Ok(false)"

\* C19: use_default_config_paths tries BASE/kailua.json and then
\* BASE/.vscode/kailua.json; once config_path is set every later
\* set_config_path call returns Ok(false) and changes no field of the
\* Config, so the second file is used only when the first was not loaded
C19_FirstWins == []DefaultOrder /\ [][LoadedStays]_vars

C19_Witness ==
    /\ last_cfg.op = "use_default_config_paths"
    /\ last_cfg.calls[1].ret = "Ok(true)"
    /\ last_cfg.calls[2].ret = "Ok(false)"
    /\ last_cfg.calls[2].path \in DOMAIN cfiles
    /\ cfiles[last_cfg.calls[2].path].kind = "data"
    /\ cfiles[last_cfg.calls[2].path] # cfiles[last_cfg.calls[1].path]
    /\ config.config_path = Some(last_cfg.calls[1].path)


(***************************************************************************)
(* Configured search paths are frozen.                                     *)
(***************************************************************************)
\* what require_chunk returns for every module name with the given lists
Resolves(pp, cp) == [name \in ModuleNames |-> require_chunk(name, pp, cp).result]

\* a step that is a set_package_path call on the built options
SetPathStep ==
    /\ wopt.built = "yes"
    /\ last_opt'.op = "set_package_path"
    /\ <<last_opt, warnings, package_path>>' # <<last_opt, warnings, package_path>>

SetCpathStep ==
    /\ wopt.built = "yes"
    /\ last_opt'.op = "set_package_cpath"
    /\ <<last_opt, warnings, package_cpath>>' # <<last_opt, warnings, package_cpath>>

\* the call refused: the list and what require_chunk resolves are as
\* before and one warning was issued
Frozen(list, message) ==
    /\ list' = list
    /\ Resolves(package_path', package_cpath') = Resolves(package_path, package_cpath)
    /\ warnings' = Append(warnings, message)
    /\ last_opt'.ret = "Ok"

\* the call forwarded: the list is what FsOptions makes of the bytes, and
\* no warning was issued
Replaced(list) ==
    /\ list' = SetPathList(last_opt'.arg, list).list
    /\ FromUtf8Ok(last_opt'.arg) => list' = SplitSemi(last_opt'.arg, <<>>)
    /\ warnings' = warnings
    /\ last_opt'.ret = SetPathList(last_opt'.arg, list).ret

FrozenIndependently ==
    /\ SetPathStep =>
          /\ package_cpath' = package_cpath
          /\ IF workspace.v.package_path.some
                 THEN Frozen(package_path, "PackagePathIsExplicitlySet")
                 ELSE Replaced(package_path)
    /\ SetCpathStep =>
          /\ package_path' = package_path
          /\ IF workspace.v.package_cpath.some
                 THEN Frozen(package_cpath, "PackageCpathIsExplicitlySet")
                 ELSE Replaced(package_cpath)

\* C20: for WorkspaceOptions built from a workspace whose package_path
\* (package_cpath) is configured, every later set_package_path
\* (set_package_cpath) leaves the template list and what require_chunk
\* resolves unchanged and issues a warning; when it is not configured the
\* call is forwarded and replaces the list; each setting is frozen by its
\* own configuration alone
C20_FrozenPaths == [][FrozenIndependently]_vars

C20_Witness ==
    /\ wopt.built = "yes"
    /\ workspace.v.package_path.some
    /\ ~workspace.v.package_cpath.some
    /\ warnings = <<"PackagePathIsExplicitlySet">>
    /\ package_path = << <<Root, "/", "lib/", "?", ".lua">> >>
    /\ last_opt.op = "set_package_cpath"
    /\ last_opt.ret = "Ok"
    /\ package_cpath = << <<"?", ".so">> >>
    /\ req.result.tag = "Ok"


(***************************************************************************)
(* C21: apply_search_paths_template, for a template whose braces form only *)
(* well-formed {start_dir} placeholders, returns the template with every   *)
(* placeholder replaced by the parent directory of the start path (`.` for *)
(* the empty parent) and all other bytes kept in order; a template without *)
(* braces is returned unchanged.                                           *)
(***************************************************************************)
\* every brace of the template belongs to a `{start_dir}`
WellFormed(t) ==
    \A i \in 1..Len(t) :
        /\ t[i] = "{" => i + 2 <= Len(t) /\ t[i + 1] = "start_dir" /\ t[i + 2] = "}"
        /\ t[i] = "}" => i >= 3 /\ t[i - 2] = "{" /\ t[i - 1] = "start_dir"

\* a well-formed template with dir in the place of every placeholder
RECURSIVE Substituted(_, _)
Substituted(t, dir) ==
    IF t = <<>> THEN <<>>
    ELSE IF Head(t) = "{" THEN dir \o Substituted(SubSeq(t, 4, Len(t)), dir)
    ELSE <<Head(t)>> \o Substituted(Tail(t), dir)

DotIfEmpty(dir) == IF dir = <<>> THEN <<".">> ELSE dir

TemplateCalled == last_fn.op = "apply_search_paths_template"

\* C21 as stated: for every start path, and with the bytes of the parent
C21_TemplateExpansion ==
    TemplateCalled /\ WellFormed(last_fn.search_paths) =>
        /\ FirstBrace(last_fn.search_paths) = 0 => last_fn.ret = Some(last_fn.search_paths)
        /\ PathParent(last_fn.start_path).some =>
               last_fn.ret = Some(Substituted(last_fn.search_paths,
                                              DotIfEmpty(PathParent(last_fn.start_path).v)))

\* C21 amended: for a start path that has a parent, whose bytes are
\* substituted as Path::display shows them
C21_TemplateExpansionWithParent ==
    TemplateCalled /\ WellFormed(last_fn.search_paths)
                   /\ PathParent(last_fn.start_path).some =>
        /\ last_fn.ret = Some(Substituted(last_fn.search_paths,
                                          PathDisplay(DotIfEmpty(PathParent(last_fn.start_path).v))))
        /\ FirstBrace(last_fn.search_paths) = 0 => last_fn.ret = Some(last_fn.search_paths)
        /\ FromUtf8Ok(last_fn.start_path) =>
               last_fn.ret = Some(Substituted(last_fn.search_paths,
                                              DotIfEmpty(PathParent(last_fn.start_path).v)))

C21_Witness ==
    /\ TemplateCalled
    /\ last_fn.search_paths = <<"{", "start_dir", "}", "/", "?", ".lua">>
    /\ last_fn.start_path = <<"bar.lua">>
    /\ last_fn.ret = Some(<<".", "/", "?", ".lua">>)


(***************************************************************************)
(* Templates that fail validation.                                         *)
(***************************************************************************)
\* the set_config_path calls of the last step that read a configuration
\* file and found a ConfigData in it
Parsed(call) ==
    /\ ~call.before.config_path.some
    /\ call.path \in DOMAIN cfiles
    /\ cfiles[call.path].kind = "data"

LastCalls == IF last_cfg = NoCfgCall THEN {} ELSE { last_cfg.calls[i] : i \in DOMAIN last_cfg.calls }

\* a `}` without an open `{`, a `{` never closed, a `{` inside an open
\* placeholder, an empty placeholder or a name other than start_dir
Malformed(template) == template.some /\ ~WellFormed(template.v)

\* the start paths templates are validated and expanded with
AnyStartPaths == TemplateStartPaths \cup StartPaths \cup { <<"example.lua">> }

ValidationFails(template) ==
    Malformed(template) =>
        \A start_path \in AnyStartPaths :
            ~apply_search_paths_template(template.v, start_path).some

\* C22: validation fails for every template with a `}` without an open `{`,
\* a `{` never closed, a `{` nested in an open placeholder, an empty
\* placeholder or a placeholder name other than start_dir; set_config_path
\* rejects such a package_path or package_cpath with an invalid-data error,
\* so the templates of a Workspace, which WorkspaceOptions::new expands,
\* are never invalid
C22_InvalidTemplateRejected ==
    /\ \A call \in LastCalls :
           Parsed(call) =>
               /\ ValidationFails(cfiles[call.path].package_path)
               /\ ValidationFails(cfiles[call.path].package_cpath)
               /\ (Malformed(cfiles[call.path].package_path)
                      \/ Malformed(cfiles[call.path].package_cpath)) =>
                      call.ret = "Err(InvalidData)"
    /\ ~Malformed(config.package_path) /\ ~Malformed(config.package_cpath)
    /\ workspace.some =>
           ~Malformed(workspace.v.package_path) /\ ~Malformed(workspace.v.package_cpath)

\* a nested brace in package_path was rejected, and the Workspace made of
\* the Config afterwards has no template
C22_Witness ==
    /\ \E call \in LastCalls :
           /\ Parsed(call)
           /\ cfiles[call.path].package_path = Some(<<"{", "{", "start_dir", "}">>)
           /\ call.ret = "Err(InvalidData)"
    /\ workspace.some
    /\ wopt.built = "yes"


(***************************************************************************)
(* Templates without `?`.                                                  *)
(***************************************************************************)
HasQ(t) == \E i \in 1..Len(t) : t[i] = "?"

NoQ(template) == template.some /\ ~HasQ(template.v)

\* C23 as stated: set_config_path rejects with an invalid-data error a
\* package_path, and likewise a package_cpath, that contains no `?`
C23_TemplateNeedsQ ==
    \A call \in LastCalls :
        Parsed(call) /\ (NoQ(cfiles[call.path].package_path)
                           \/ NoQ(cfiles[call.path].package_cpath)) =>
            call.ret = "Err(InvalidData)"

\* C23 amended: a package_path or package_cpath without `?` is rejected
\* only as one with `?` is, when its braces are malformed; otherwise the
\* call goes on and stores it
C23_TemplateWithoutQStored ==
    \A call \in LastCalls :
        Parsed(call) /\ (NoQ(cfiles[call.path].package_path)
                           \/ NoQ(cfiles[call.path].package_cpath)) =>
            /\ call.ret = "Err(InvalidData)" <=>
                   \/ Malformed(cfiles[call.path].package_path)
                   \/ Malformed(cfiles[call.path].package_cpath)
            /\ call.ret # "Err(InvalidData)" =>
                   /\ call.ret = "Ok(true)"
                   /\ call.after.package_path = cfiles[call.path].package_path
                   /\ call.after.package_cpath = cfiles[call.path].package_cpath

C23_Witness ==
    \E call \in LastCalls :
        /\ Parsed(call)
        /\ cfiles[call.path].package_path = Some(<<"{", "start_dir", "}">>)
        /\ cfiles[call.path].package_cpath = Some(<<"lib.so">>)
        /\ call.ret = "Ok(true)"
        /\ config.package_path = Some(<<"{", "start_dir", "}">>)


(***************************************************************************)
(* Comments and stray commas of a configuration file.                      *)
(***************************************************************************)
\* the closing quote of a string literal whose content starts at p, an
\* escaped character skipped; 0 when the literal is not closed
RECURSIVE ClosingQuote(_, _)
ClosingQuote(s, p) ==
    IF p > Len(s) THEN 0
    ELSE IF s[p] = Quote THEN p
    ELSE IF s[p] = Backslash THEN ClosingQuote(s, p + 2)
    ELSE ClosingQuote(s, p + 1)

\* the last character of the line comment that starts at p
EndOfLine(s, p) ==
    CHOOSE q \in (p + 1)..Len(s) :
        /\ \A k \in (p + 2)..q : s[k] \notin { "\r", "\n" }
        /\ q = Len(s) \/ s[q + 1] \in { "\r", "\n" }

\* the last character of the block comment that starts at p, 0 when it is
\* not closed
EndOfBlock(s, p) ==
    IF \E q \in (p + 3)..Len(s) : s[q - 1] = "*" /\ s[q] = "/"
        THEN CHOOSE q \in (p + 3)..Len(s) :
                 /\ s[q - 1] = "*" /\ s[q] = "/"
                 /\ \A k \in (p + 3)..(q - 1) : ~(s[k - 1] = "*" /\ s[k] = "/")
        ELSE 0

Opens(s, p, second) == p + 1 <= Len(s) /\ s[p] = "/" /\ s[p + 1] = second

\* the string literal, comment or single character that starts at p: its
\* kind and its last position, 0 for a literal or comment left open
ItemAt(s, p) ==
    IF s[p] = Quote THEN [kind |-> "string", end |-> ClosingQuote(s, p + 1)]
    ELSE IF Opens(s, p, "/") THEN [kind |-> "comment", end |-> EndOfLine(s, p)]
    ELSE IF Opens(s, p, "*") THEN [kind |-> "comment", end |-> EndOfBlock(s, p)]
    ELSE IF s[p] \in { " ", "\t", "\n", "\r" } THEN [kind |-> "space", end |-> p]
    ELSE IF s[p] = "," THEN [kind |-> "comma", end |-> p]
    ELSE [kind |-> "other", end |-> p]

Item(s, p, at) == [kind |-> at.kind, text |-> SubSeq(s, p, at.end)]

\* the items of a text from position p on; every literal and comment closed
RECURSIVE Items(_, _), Closed(_, _)
Items(s, p) ==
    IF p > Len(s) THEN <<>>
    ELSE <<Item(s, p, ItemAt(s, p))>> \o Items(s, ItemAt(s, p).end + 1)

Closed(s, p) ==
    p > Len(s) \/ (ItemAt(s, p).end # 0 /\ Closed(s, ItemAt(s, p).end + 1))

Blank(item) == item.kind \in { "space", "comment" }

\* the item before item i that is no whitespace and no comment is a comma
AfterComma(items, i) ==
    \E j \in 1..(i - 1) :
        items[j].kind = "comma" /\ \A k \in (j + 1)..(i - 1) : Blank(items[k])

\* what is written for item i: a space for a comment, whitespace and
\* string literals as they are, a comma not with its own item but before
\* the next item that is not blank, unless that is `]` or `}`
Written(items, i) ==
    IF items[i].kind = "comment" THEN <<" ">>
    ELSE IF items[i].kind = "space" THEN items[i].text
    ELSE (IF AfterComma(items, i) /\ items[i].text \notin { <<"]">>, <<"}">> }
             THEN <<",">> ELSE <<>>)
         \o (IF items[i].kind = "comma" THEN <<>> ELSE items[i].text)

Dehumanized(items) ==
    Flatten([i \in 1..Len(items) |-> Written(items, i)])
        \o (IF AfterComma(items, Len(items) + 1) THEN <<",">> ELSE <<>>)

JsonCalled == last_fn.op = "dehumanize_json"

\* C24: dehumanize_json replaces every line comment and block comment
\* outside a string literal by one space, leaves string literals unchanged,
\* removes a comma followed, whitespace and comments ignored, by `]` or `}`,
\* and keeps every other comma and token in order, a kept comma after the
\* whitespace that followed it
C24_CommentsAndCommas ==
    JsonCalled /\ Closed(last_fn.s, 1) => last_fn.ret = Dehumanized(Items(last_fn.s, 1))

\* the last text of test_dehumanize_json and its result (lib.rs:354)
C24_Witness ==
    /\ JsonCalled
    /\ last_fn.s = <<"[", "3", ",", " ", "4", ",", " ", "5", ",", "\n",
                     "/", "*", "w", "a", "t", "*", "/", "\n",
                     "/", "/", " ", "?", "?", "?", "\n", "]">>
    /\ Closed(last_fn.s, 1)
    /\ last_fn.ret = <<"[", "3", " ", ",", "4", " ", ",", "5", "\n", " ", "\n", " ", "\n", "]">>


(***************************************************************************)
(* Errors of the source.                                                   *)
(***************************************************************************)
\* the probes of the last require_chunk call that chunk_from_path failed for
FailedProbes ==
    { i \in 1..Len(req.probes) : ChunkFromPath(req.probes[i]).tag = "Err" }

\* C25: when chunk_from_path returns an error for a probe, require_chunk
\* returns that error at once: the probe is the last one made and the
\* result is its error, not `module not found`, whatever a later candidate
\* path would have given
C25_ErrorPassthrough ==
    req.result.tag # "Idle" =>
        \A i \in FailedProbes :
            /\ i = Len(req.probes)
            /\ req.result = ChunkFromPath(req.probes[i])
            /\ req.result.tag = "Err"
            /\ req.result.val # <<"module not found">>

\* the first probe failed, and a candidate path after it holds the module
C25_Witness ==
    /\ req.result.tag = "Err"
    /\ FailedProbes = { 1 }
    /\ \E j \in 2..Len(ProbeOrder(req.name, req.pp, req.cp)) :
           ChunkFromPath(ProbeOrder(req.name, req.pp, req.cp)[j]).tag = "Some"


(***************************************************************************)
(* A type of one family against a union.                                   *)
(***************************************************************************)
\* the last assertion was a.assert_sub(U) for a union U and an a that is
\* neither a union, a type variable, a tagged type, Dynamic nor None
SubAgainstUnion ==
    /\ last_assert.op = "sub"
    /\ last_assert.a.k \in FamilyKinds
    /\ last_assert.b.k = "Union"

\* the field of a union for the family of a type, as a type of its own;
\* TNone when the field is not set
FieldFor(a, u) ==
    IF a.k = "Numbers" THEN (IF u.numbers = Absent THEN TNone ELSE TNumbers(u.numbers))
    ELSE IF a.k = "Strings" THEN (IF u.strings = Absent THEN TNone ELSE TStrings(u.strings))
    ELSE IF a.k = "Tables" THEN (IF u.tables = Absent THEN TNone ELSE TTables(u.tables))
    ELSE (IF u.functions = Absent THEN TNone ELSE TFunctions(u.functions))

\* C26: a non-union type against a union U is compared with the matching
\* field of U alone: nil with has_nil, true with has_true, false with
\* has_false, boolean with both; a Numbers, Strings, Tables or Functions
\* shape is a subtype of U iff U has the field of that family and the shape
\* is a subtype of that field, and the assertion fails when the field is
\* absent
C26_FieldAlone ==
    SubAgainstUnion =>
        /\ last_assert.r \in { "Ok", "Err" }
        /\ last_assert.a.k = "Nil" => (last_assert.r = "Ok" <=> last_assert.b.u.has_nil)
        /\ last_assert.a.k = "True" => (last_assert.r = "Ok" <=> last_assert.b.u.has_true)
        /\ last_assert.a.k = "False" => (last_assert.r = "Ok" <=> last_assert.b.u.has_false)
        /\ last_assert.a.k = "Boolean" =>
               (last_assert.r = "Ok" <=>
                    last_assert.b.u.has_true /\ last_assert.b.u.has_false)
        /\ last_assert.a.k \in { "Numbers", "Strings", "Tables", "Functions" } =>
               /\ FieldFor(last_assert.a, last_assert.b.u) = TNone => last_assert.r = "Err"
               /\ FieldFor(last_assert.a, last_assert.b.u) # TNone =>
                      last_assert.r =
                          TAssertSub(last_assert.a, FieldFor(last_assert.a, last_assert.b.u),
                                     ctx).r

\* integer against boolean | 3: the numbers field is there, and integer is
\* no subtype of it
C26_Witness ==
    /\ SubAgainstUnion
    /\ last_assert.a = integer
    /\ last_assert.b = TUnion(TBoolean, int(3))
    /\ last_assert.b.u.numbers = NOne(3)
    /\ last_assert.r = "Err"


(***************************************************************************)
(* Equality of a union and a type that is no union.                        *)
(***************************************************************************)
\* the last assertion was an assert_eq with a union on one side alone
EqWithOneUnion ==
    /\ last_assert.op = "eq"
    /\ (last_assert.a.k = "Union") # (last_assert.b.k = "Union")

\* the union operand of such an assertion
UnionSide == IF last_assert.a.k = "Union" THEN last_assert.a.u ELSE last_assert.b.u

\* C27: T::assert_eq between a Union and a non-Union type always returns
\* Ok or Err and never aborts; it fails with a type mismatch when the
\* union has more than one populated family
C27_UnionEqDecided ==
    EqWithOneUnion =>
        /\ last_assert.r \in { "Ok", "Err" }
        /\ (UnionSize(UnionSide) > 1
               /\ { last_assert.a.k, last_assert.b.k } \cap { "Dynamic", "None" } = {}) =>
               last_assert.r = "Err"

(***************************************************************************)
(* The side effect of a table union on its operands.                       *)
(***************************************************************************)
\* the slots of a table, by position
SlotMap(tab) ==
    IF tab.c = "Tuple" THEN [i \in 1..Len(tab.slots) |-> tab.slots[i]]
    ELSE IF tab.c = "Record" THEN tab.fields
    ELSE IF tab.c \in { "Array", "Map" } THEN [p \in { "slot" } |-> tab.slot]
    ELSE <<>>

\* the slots of table x are joined when it is united with table y
Joins(x, y) ==
    \/ x.c = "Tuple" /\ y.c \in { "Tuple", "Empty" }
    \/ x.c = "Record" /\ y.c = "Record"
    \/ x.c \in { "Array", "Map" } /\ y.c \in { "Array", "Map" }

\* the operand x, united with y, is left as `after`: a joined Currently
\* slot is a Var slot of the same type, everything else is as it was
LeftAs(x, y, after) ==
    /\ after.k = "Tables"
    /\ after.tab.c = x.c
    /\ x.c = "Map" => after.tab.key = x.key
    /\ DOMAIN SlotMap(after.tab) = DOMAIN SlotMap(x)
    /\ \A p \in DOMAIN SlotMap(x) :
          SlotMap(after.tab)[p] =
              IF Joins(x, y) /\ SlotMap(x)[p].f = "Currently"
                  THEN [f |-> "Var", t |-> SlotMap(x)[p].t]
                  ELSE SlotMap(x)[p]

\* the positions that both operands and the join have a slot for
SharedPositions ==
    IF BothTables /\ Joins(ua.tab, ub.tab) /\ ures.ab.k = "Tables"
        THEN DOMAIN SlotMap(ua.tab) \cap DOMAIN SlotMap(ub.tab)
                 \cap DOMAIN SlotMap(ures.ab.tab)
        ELSE {}

\* C28: a table union turns every Currently slot that takes part in the
\* join (one in a position that the other operand lacks included) into a
\* Var slot of the same type in its operand, leaves every other operand
\* slot unchanged, and joins the converted flavors, so that Currently
\* joined with Just gives VarOrConst
C28_CurrentlyBecomesVar ==
    BothTables =>
        /\ LeftAs(ua.tab, ub.tab, ures.lhs_after)
        /\ LeftAs(ub.tab, ua.tab, ures.rhs_after)
        /\ \A p \in SharedPositions :
              /\ SlotMap(ures.ab.tab)[p] =
                     SlotUnion(SlotMap(ures.lhs_after.tab)[p],
                               SlotMap(ures.rhs_after.tab)[p])
              /\ { SlotMap(ua.tab)[p].f, SlotMap(ub.tab)[p].f } = { "Currently", "Just" }
                     => SlotMap(ures.ab.tab)[p].f = "VarOrConst"

C28_Witness ==
    /\ BothTables
    /\ ua = tuple(<<curr(integer)>>)
    /\ ub = tuple(<<just(integer), curr(integer)>>)
    /\ ures.lhs_after = tuple(<<var(integer)>>)
    /\ ures.rhs_after = tuple(<<just(integer), var(integer)>>)
    /\ ures.ab.tab.slots[1].f = "VarOrConst"
    /\ ures.ab.tab.slots[2].f = "VarOrConst"

(***************************************************************************)
(* The outcome of T::assert_eq with its operands exchanged.                *)
(***************************************************************************)
\* the last assertion was an assert_eq; its outcome the other way round
Exchanged == TAssertEq(last_assert.b, last_assert.a, ctx)

\* C29: T::assert_eq is symmetric in its outcome: assert_eq(a, b) succeeds
\* if and only if assert_eq(b, a) succeeds, also when one operand is None
C29_EqSymmetric ==
    last_assert.op = "eq" =>
        (last_assert.r = "Ok" <=> Exchanged.r = "Ok")

(***************************************************************************)
(* The Config after a set_config_path call that returned an error.         *)
(***************************************************************************)
Failed(call) == call.ret \in { "Err(NotFound)", "Err(InvalidData)" }

\* C30: when set_config_path returns an error (unreadable file, invalid
\* JSON, bad package_path or package_cpath template, invalid message_lang)
\* no field of the Config has changed: config_path is still unset and
\* start_paths, package_path, package_cpath, message_locale and preload
\* keep their values, so that a later set_config_path on another file is
\* still attempted
C30_ErrorLeavesConfig ==
    /\ \A call \in LastCalls :
          Failed(call) =>
              /\ call.after = call.before
              /\ ~call.after.config_path.some
    /\ (last_cfg.op = "use_default_config_paths" /\ Failed(last_cfg.calls[1])) =>
          last_cfg.calls[2].ret # "Ok(false)"

====
